---- MODULE Spec2Model ----
(***************************************************************************)
(* Model of eslint-plugin-baseline: the Baseline engine                    *)
(* (src/src/core/baseline.js), the formatter (src/src/index.js, second     *)
(* part) and the persisted baseline they share.                            *)
(*                                                                         *)
(* Strings are sequences of one-character strings, so that concatenation,  *)
(* replacement, suffix tests and ordering are computed, not assumed.       *)
(***************************************************************************)
EXTENDS Integers, Sequences, FiniteSets, TLC

VARIABLES
    splitByRule,   \* Baseline.splitByRule, fixed at construction
    disk,          \* the persisted baseline: the single file and the split directory
    baseline,      \* the engine instance: [data, index, loaded]
    ret,           \* the last call on the engine or formatter and what it returned
    calls,         \* history: isInBaseline calls per lookup since the document was loaded
    matched,       \* history: isInBaseline calls per file that returned true since then
    persisted,     \* history: what the last successful save or update run was given
    loadedFrom,    \* history: the persisted baseline the loaded document was read from
    baselineInstance  \* the processor's baselineInstance: [null, id]; its engine is baseline

vars == <<splitByRule, disk, baseline, ret, calls, matched, persisted, loadedFrom,
         baselineInstance>>

----------------------------------------------------------------------------
(* Bounds *)

MaxLen == 2        \* findings per file in an enumerated document
MaxLookups == 4    \* isInBaseline calls on one loaded document

----------------------------------------------------------------------------
(* Strings *)

\* UTF-16 code units of the characters the model uses (Array.prototype.sort
\* without a comparator orders by code unit).
CodeUnit(c) ==
    CASE c = "-" -> 45 [] c = "." -> 46 [] c = "/" -> 47
      [] c = "0" -> 48 [] c = "1" -> 49 [] c = "2" -> 50 [] c = "3" -> 51
      [] c = "4" -> 52 [] c = "5" -> 53 [] c = "6" -> 54 [] c = "7" -> 55
      [] c = "8" -> 56 [] c = "9" -> 57 [] c = ":" -> 58 [] c = "_" -> 95
      [] c = "a" -> 97 [] c = "b" -> 98 [] c = "d" -> 100 [] c = "e" -> 101
      [] c = "g" -> 103 [] c = "j" -> 106 [] c = "l" -> 108 [] c = "n" -> 110
      [] c = "o" -> 111 [] c = "r" -> 114 [] c = "s" -> 115 [] c = "w" -> 119
      [] c = "x" -> 120

\* Rank of a character in the root collation String.prototype.localeCompare
\* uses: punctuation ( _ - : . / ) before digits before letters.
CollationRank(c) ==
    CASE c = "_" -> 1 [] c = "-" -> 2 [] c = ":" -> 3 [] c = "." -> 4
      [] c = "/" -> 5
      [] OTHER -> CodeUnit(c)

RECURSIVE CompareBy(_, _, _)
\* -1, 0 or 1: s before, equal to, or after t, character by character under
\* the rank rk; a proper prefix comes first.
CompareBy(rk(_), s, t) ==
    IF s = <<>> /\ t = <<>> THEN 0
    ELSE IF s = <<>> THEN -1
    ELSE IF t = <<>> THEN 1
    ELSE IF rk(Head(s)) < rk(Head(t)) THEN -1
    ELSE IF rk(Head(s)) > rk(Head(t)) THEN 1
    ELSE CompareBy(rk, Tail(s), Tail(t))

localeCompare(s, t) == CompareBy(CollationRank, s, t)

CodeUnitCompare(s, t) == CompareBy(CodeUnit, s, t)

EndsWith(s, suffix) ==
    /\ Len(s) >= Len(suffix)
    /\ SubSeq(s, Len(s) - Len(suffix) + 1, Len(s)) = suffix

\* String.prototype.replace(/\//g, '-') and the like: every from becomes to.
ReplaceAll(s, from, to) == [i \in 1..Len(s) |-> IF s[i] = from THEN to ELSE s[i]]

Digit(d) ==
    CASE d = 0 -> "0" [] d = 1 -> "1" [] d = 2 -> "2" [] d = 3 -> "3"
      [] d = 4 -> "4" [] d = 5 -> "5" [] d = 6 -> "6" [] d = 7 -> "7"
      [] d = 8 -> "8" [] d = 9 -> "9"

RECURSIVE NumberToString(_)
\* `${line}` for a natural number: its decimal digits.
NumberToString(n) ==
    IF n < 10 THEN <<Digit(n)>>
    ELSE NumberToString(n \div 10) \o <<Digit(n % 10)>>

JsonSuffix == <<".", "j", "s", "o", "n">>

LoaderFile == <<"_", "l", "o", "a", "d", "e", "r">> \o JsonSuffix

\* Sequence helpers
RECURSIVE SeqSum(_)
SeqSum(s) == IF s = <<>> THEN 0 ELSE Head(s) + SeqSum(Tail(s))

Range(s) == {s[i] : i \in 1..Len(s)}

\* All sequences that enumerate the finite set S once each.
Orders(S) ==
    {o \in [1..Cardinality(S) -> S] : \A i, j \in 1..Cardinality(S) : o[i] = o[j] => i = j}

----------------------------------------------------------------------------
(* Paths *)

\* Baseline.cwd, the root the stored paths are relative to.
Cwd == <<"/", "w">>

RECURSIVE SplitSegments(_, _)
\* The non-empty segments of a path, acc being the segment read so far.
SplitSegments(p, acc) ==
    IF p = <<>> THEN (IF acc = <<>> THEN <<>> ELSE <<acc>>)
    ELSE IF Head(p) = "/" THEN
        (IF acc = <<>> THEN <<>> ELSE <<acc>>) \o SplitSegments(Tail(p), <<>>)
    ELSE SplitSegments(Tail(p), Append(acc, Head(p)))

RECURSIVE JoinSegments(_)
JoinSegments(segs) ==
    IF segs = <<>> THEN <<>>
    ELSE IF Len(segs) = 1 THEN segs[1]
    ELSE segs[1] \o <<"/">> \o JoinSegments(Tail(segs))

RECURSIVE CommonPrefixLen(_, _)
CommonPrefixLen(a, b) ==
    IF a = <<>> \/ b = <<>> \/ Head(a) # Head(b) THEN 0
    ELSE 1 + CommonPrefixLen(Tail(a), Tail(b))

\* path.relative(from, to) for absolute POSIX paths: climb out of what is
\* left of from, then descend into what is left of to.
PathRelative(from, to) ==
    LET f == SplitSegments(from, <<>>)
        t == SplitSegments(to, <<>>)
        c == CommonPrefixLen(f, t)
        up == [i \in 1..(Len(f) - c) |-> <<".", ".">>]
    IN JoinSegments(up \o SubSeq(t, c + 1, Len(t)))

\* path.join(cwd, relative) for a stored relative path.
PathJoin(dir, rel) == dir \o <<"/">> \o rel

----------------------------------------------------------------------------
(* Findings and documents *)

\* A finding as the engine holds it: { ruleId, line, column, message } and,
\* when the persisted entry carries one, severity (0: the property is absent).
Finding(ruleId, line, column, message) ==
    [ruleId |-> ruleId, line |-> line, column |-> column, message |-> message,
     severity |-> 0]

\* A document (a JavaScript object of arrays) is the sequence of its
\* [file, errors] members in insertion order; file keys are distinct.
DocKeys(data) == [i \in 1..Len(data) |-> data[i].file]

HasKey(data, file) == \E i \in 1..Len(data) : data[i].file = file

\* data[file] || []
ErrorsOf(data, file) ==
    IF HasKey(data, file)
    THEN data[CHOOSE i \in 1..Len(data) : data[i].file = file].errors
    ELSE <<>>

\* data[file] = data[file] || []; data[file].push(error)
PushError(data, file, error) ==
    IF HasKey(data, file)
    THEN [i \in 1..Len(data) |->
            IF data[i].file = file
            THEN [file |-> file, errors |-> Append(data[i].errors, error)]
            ELSE data[i]]
    ELSE Append(data, [file |-> file, errors |-> <<error>>])

RECURSIVE PushAll(_, _, _)
\* data[file].push(...errors), creating data[file] first
PushAll(data, file, errors) ==
    IF errors = <<>>
    THEN (IF HasKey(data, file) THEN data
          ELSE Append(data, [file |-> file, errors |-> <<>>]))
    ELSE PushAll(PushError(data, file, Head(errors)), file, Tail(errors))

DocSize(data) == SeqSum([i \in 1..Len(data) |-> Len(data[i].errors)])

\* The number of positions of s that hold x.
CountIn(s, x) == Cardinality({i \in 1..Len(s) : s[i] = x})

\* Equal as unordered multisets.
SameMultiset(s, t) ==
    /\ Len(s) = Len(t)
    /\ \A x \in Range(s) \cup Range(t) : CountIn(s, x) = CountIn(t, x)

----------------------------------------------------------------------------
(* JSON texts: what JSON.stringify writes and JSON.parse reads *)

JGarbage == [t |-> "garbage"]        \* a text JSON.parse throws on
JUndef == [t |-> "undef"]            \* a property that is not there
JNull == [t |-> "null"]
JNum(n) == [t |-> "num", v |-> n]
JStr(s) == [t |-> "str", v |-> s]
JArr(items) == [t |-> "arr", v |-> items]
JObj(members) == [t |-> "obj", v |-> members]  \* members: [k, v] in text order
JEntry(ruleId, line, column, message, severity) ==
    [t |-> "entry", ruleId |-> ruleId, line |-> line, column |-> column,
     message |-> message, severity |-> severity]

\* JSON.stringify of one finding.
StringifyFinding(e) ==
    JEntry(JStr(e.ruleId), JNum(e.line),
           IF e.column = 0 THEN JUndef ELSE JNum(e.column),
           JStr(e.message),
           IF e.severity = 0 THEN JUndef ELSE JNum(e.severity))

\* JSON.stringify(data, null, 2) of a document.
JSONstringify(data) ==
    JObj([i \in 1..Len(data) |->
            [k |-> data[i].file,
             v |-> JArr([j \in 1..Len(data[i].errors) |->
                            StringifyFinding(data[i].errors[j])])]])

\* The object JSON.parse builds for an entry that passed validation (the
\* enumerated texts give such entries a string message).
ParsedFinding(j) ==
    [ruleId |-> j.ruleId.v, line |-> j.line.v,
     column |-> IF j.column.t = "num" THEN j.column.v ELSE 0,
     message |-> IF j.message.t = "str" THEN j.message.v ELSE <<>>,
     severity |-> IF j.severity.t = "num" THEN j.severity.v ELSE 0]

----------------------------------------------------------------------------
(* Storage codec *)

\* The errors.filter callback of _validateBaselineData.
IsValidEntry(j) ==
    /\ j.t = "entry"
    /\ j.ruleId.t = "str"
    /\ j.line.t = "num"

RECURSIVE ValidateMembersUntilBad(_)
\* A loop over Object.entries(data) that breaks at a value that is not an array.
ValidateMembersUntilBad(members) ==
    IF members = <<>> THEN <<>>
    ELSE LET m == Head(members)
             rest == ValidateMembersUntilBad(Tail(members))
         IN IF m.v.t # "arr" THEN <<>>
            ELSE LET validErrors == SelectSeq(m.v.v, IsValidEntry)
                 IN IF Len(validErrors) > 0
                    THEN <<[file |-> m.k,
                            errors |-> [i \in 1..Len(validErrors) |->
                                           ParsedFinding(validErrors[i])]]>> \o rest
                    ELSE rest

RECURSIVE ValidateMembers(_)
\* The loop of _validateBaselineData over Object.entries(data).
ValidateMembers(members) ==
    IF members = <<>> THEN <<>>
    ELSE LET m == Head(members)
             rest == ValidateMembers(Tail(members))
         IN IF m.v.t # "arr" THEN rest
            ELSE LET validErrors == SelectSeq(m.v.v, IsValidEntry)
                 IN IF Len(validErrors) > 0
                    THEN <<[file |-> m.k,
                            errors |-> [i \in 1..Len(validErrors) |->
                                           ParsedFinding(validErrors[i])]]>> \o rest
                    ELSE rest

\* _validateBaselineData without the Array.isArray test: Object.entries of an
\* array are its elements under the keys '0', '1', ...
validateArraysToo(json) ==
    IF json.t = "obj" THEN ValidateMembers(json.v)
    ELSE IF json.t = "arr"
    THEN ValidateMembers([i \in 1..Len(json.v) |->
                            [k |-> NumberToString(i - 1), v |-> json.v[i]]])
    ELSE <<>>

_validateBaselineData(json) ==
    IF json.t # "obj" THEN <<>> ELSE ValidateMembers(json.v)

\* The comparator of _sortBaseline: negative, zero or positive.
CompareErrors(a, b) ==
    IF a.line # b.line THEN a.line - b.line
    ELSE localeCompare(a.ruleId, b.ruleId)

RECURSIVE InsertBy(_, _, _)
\* x put into the sorted s behind every element that does not come after it.
InsertBy(cmp(_, _), s, x) ==
    IF s = <<>> THEN <<x>>
    ELSE IF cmp(Head(s), x) > 0 THEN <<x>> \o s
    ELSE <<Head(s)>> \o InsertBy(cmp, Tail(s), x)

RECURSIVE StableSort(_, _, _)
\* Array.prototype.sort is stable: s sorted by cmp, acc the sorted part.
StableSort(cmp(_, _), s, acc) ==
    IF s = <<>> THEN acc
    ELSE StableSort(cmp, Tail(s), InsertBy(cmp, acc, Head(s)))

RECURSIVE InsertUnlessTied(_, _)
InsertUnlessTied(s, x) ==
    IF s = <<>> THEN <<x>>
    ELSE IF CompareErrors(Head(s), x) = 0 THEN s
    ELSE IF CompareErrors(Head(s), x) > 0 THEN <<x>> \o s
    ELSE <<Head(s)>> \o InsertUnlessTied(Tail(s), x)

RECURSIVE SortDroppingTies(_, _)
SortDroppingTies(s, acc) ==
    IF s = <<>> THEN acc ELSE SortDroppingTies(Tail(s), InsertUnlessTied(acc, Head(s)))

\* SortErrors that keeps one of the errors the comparator ties.
SortErrorsDroppingTies(errors) == SortDroppingTies(errors, <<>>)

SortErrors(errors) == StableSort(CompareErrors, errors, <<>>)

\* Object.keys(data).sort()
SortKeys(keys) == StableSort(CodeUnitCompare, keys, <<>>)

\* _sortBaseline that orders the keys and leaves each array as it is.
sortBaselineKeysOnly(data) ==
    LET sortedKeys == SortKeys(DocKeys(data))
    IN [i \in 1..Len(sortedKeys) |->
          [file |-> sortedKeys[i], errors |-> ErrorsOf(data, sortedKeys[i])]]

\* What _sortBaseline returns: keys in sorted order, each array sorted.
_sortBaseline(data) ==
    LET sortedKeys == SortKeys(DocKeys(data))
    IN [i \in 1..Len(sortedKeys) |->
          [file |-> sortedKeys[i], errors |-> SortErrors(ErrorsOf(data, sortedKeys[i]))]]

\* What _sortBaseline leaves in its argument: data[key].sort(...) sorts the
\* caller's arrays in place, the keys stay where they are.
SortedInPlace(data) ==
    [i \in 1..Len(data) |-> [file |-> data[i].file, errors |-> SortErrors(data[i].errors)]]

\* The persisted baseline: the single file and the split directory.
NoDisk ==
    [file |-> [exists |-> FALSE, content |-> JGarbage],
     dir |-> [exists |-> FALSE, entries |-> {}]]

EntryNames(dir) == {e.name : e \in dir.entries}

ContentOf(dir, name) == (CHOOSE e \in dir.entries : e.name = name).content

\* fs.writeFileSync(path.join(baselineDir, name), content)
WriteEntry(dir, name, content) ==
    [exists |-> TRUE,
     entries |-> {e \in dir.entries : e.name # name} \cup {[name |-> name, content |-> content]}]

_loadSingleBaseline(d) ==
    IF ~d.file.exists THEN <<>>
    ELSE IF d.file.content = JGarbage THEN <<>>          \* JSON.parse throws
    ELSE _validateBaselineData(d.file.content)

RECURSIVE MergeDoc(_, _)
\* merged[sourceFile].push(...errors) for every member of validated
MergeDoc(merged, validated) ==
    IF validated = <<>> THEN merged
    ELSE MergeDoc(PushAll(merged, Head(validated).file, Head(validated).errors),
                  Tail(validated))

RECURSIVE MergeFilesUntilBad(_, _, _)
\* MergeFiles without the inner try: the first document that does not parse
\* ends the loop, and what was merged before it is returned.
MergeFilesUntilBad(dir, files, merged) ==
    IF files = <<>> THEN merged
    ELSE LET content == ContentOf(dir, Head(files))
         IN IF content = JGarbage
            THEN merged
            ELSE MergeFilesUntilBad(dir, Tail(files),
                                    MergeDoc(merged, _validateBaselineData(content)))

RECURSIVE MergeFiles(_, _, _)
MergeFiles(dir, files, merged) ==
    IF files = <<>> THEN merged
    ELSE LET content == ContentOf(dir, Head(files))
         IN IF content = JGarbage
            THEN MergeFiles(dir, Tail(files), merged)    \* parse error: continue
            ELSE MergeFiles(dir, Tail(files),
                            MergeDoc(merged, _validateBaselineData(content)))

IsRuleDocument(name) == EndsWith(name, JsonSuffix) /\ name # LoaderFile

\* readdir is the order fs.readdirSync lists the directory in.
_loadSplitBaseline(d, readdir) ==
    IF ~d.dir.exists THEN <<>>
    ELSE MergeFiles(d.dir, SelectSeq(readdir, IsRuleDocument), <<>>)

_saveSingleBaseline(d, data) ==
    [d EXCEPT !.file = [exists |-> TRUE, content |-> JSONstringify(_sortBaseline(data))]]

\* byRule[ruleId][filePath].push(error); byRule is a sequence of
\* [rule, data] members in insertion order.
AddByRule(byRule, rule, file, error) ==
    IF \E i \in 1..Len(byRule) : byRule[i].rule = rule
    THEN [i \in 1..Len(byRule) |->
            IF byRule[i].rule = rule
            THEN [rule |-> rule, data |-> PushError(byRule[i].data, file, error)]
            ELSE byRule[i]]
    ELSE Append(byRule, [rule |-> rule, data |-> <<[file |-> file, errors |-> <<error>>]>>])

\* The filename-safe rule identifier: ruleId.replace(/\//g, '-')
SafeRuleId(ruleId) == ReplaceAll(ruleId, "/", "-")

RECURSIVE GroupErrors(_, _, _)
GroupErrors(byRule, file, errors) ==
    IF errors = <<>> THEN byRule
    ELSE GroupErrors(AddByRule(byRule, SafeRuleId(Head(errors).ruleId), file, Head(errors)),
                     file, Tail(errors))

RECURSIVE GroupByRule(_, _)
GroupByRule(byRule, data) ==
    IF data = <<>> THEN byRule
    ELSE GroupByRule(GroupErrors(byRule, Head(data).file, Head(data).errors), Tail(data))

RECURSIVE WriteRuleFiles(_, _)
WriteRuleFiles(dir, byRule) ==
    IF byRule = <<>> THEN dir
    ELSE WriteRuleFiles(
            WriteEntry(dir, Head(byRule).rule \o JsonSuffix,
                       JSONstringify(_sortBaseline(Head(byRule).data))),
            Tail(byRule))

\* The content of _loader.json.
Manifest(ruleFiles) ==
    JObj(<<[k |-> <<"description">>,
            v |-> JStr(<<"ESLint baseline split by rule identifier">>)],
           [k |-> <<"files">>,
            v |-> JArr([i \in 1..Len(ruleFiles) |-> JStr(ruleFiles[i])])]>>)

_saveSplitBaseline(d, data) ==
    LET byRule == GroupByRule(<<>>, data)
        cleared == [exists |-> TRUE,
                    entries |-> {e \in d.dir.entries : ~EndsWith(e.name, JsonSuffix)}]
        written == WriteRuleFiles(cleared, byRule)
        ruleFiles == [i \in 1..Len(byRule) |-> byRule[i].rule \o JsonSuffix]
    IN [d EXCEPT !.dir = WriteEntry(written, LoaderFile, Manifest(SortKeys(ruleFiles)))]

----------------------------------------------------------------------------
(* The engine: class Baseline *)

Null == [null |-> TRUE, val |-> <<>>]

Obj(v) == [null |-> FALSE, val |-> v]

\* The state the constructor leaves.
NewBaseline == [data |-> Null, index |-> Null, loaded |-> FALSE]

\* _generateHash that leaves the message out of the digested text.
hashWithoutMessage(ruleId, line, message) ==
    ruleId \o <<":">> \o NumberToString(line)

\* The text _generateHash digests, `${ruleId}:${line}:${message}`, stands for
\* its digest: md5(...).digest('hex').substring(0, 12) is taken to be free of
\* collisions, so two hashes are equal exactly when the digested texts are.
_generateHash(ruleId, line, message) ==
    ruleId \o <<":">> \o NumberToString(line) \o <<":">> \o message

HashOf(error) == _generateHash(error.ruleId, error.line, error.message)

\* A Map (or a counting object) is the sequence of its [key, count] entries
\* in insertion order.
MapHas(map, hash) == \E i \in 1..Len(map) : map[i].key = hash

\* hashes.get(hash) || 0
MapGet(map, hash) ==
    IF MapHas(map, hash)
    THEN map[CHOOSE i \in 1..Len(map) : map[i].key = hash].count
    ELSE 0

MapSet(map, hash, count) ==
    IF MapHas(map, hash)
    THEN [i \in 1..Len(map) |->
            IF map[i].key = hash THEN [key |-> hash, count |-> count] ELSE map[i]]
    ELSE Append(map, [key |-> hash, count |-> count])

MapDelete(map, hash) == SelectSeq(map, LAMBDA e : e.key # hash)

RECURSIVE CountHashesOnce(_, _)
\* CountHashes that sets 1 instead of adding 1.
CountHashesOnce(hashes, errors) ==
    IF errors = <<>> THEN hashes
    ELSE CountHashesOnce(MapSet(hashes, HashOf(Head(errors)), 1), Tail(errors))

RECURSIVE CountHashes(_, _)
\* The inner loop of _buildIndex.
CountHashes(hashes, errors) ==
    IF errors = <<>> THEN hashes
    ELSE LET hash == HashOf(Head(errors))
         IN CountHashes(MapSet(hashes, hash, MapGet(hashes, hash) + 1), Tail(errors))

_buildIndex(data) ==
    [i \in 1..Len(data) |->
        [file |-> data[i].file, hashes |-> CountHashes(<<>>, data[i].errors)]]

IndexHas(index, file) == \E i \in 1..Len(index) : index[i].file = file

IndexGet(index, file) == index[CHOOSE i \in 1..Len(index) : index[i].file = file].hashes

\* load() without the early return for a loaded instance.
loadAlways(b, split, d, readdir) ==
    LET data == IF split THEN _loadSplitBaseline(d, readdir)
                ELSE _loadSingleBaseline(d)
    IN [data |-> Obj(data), index |-> Obj(_buildIndex(data)), loaded |-> TRUE]

\* load(): b is the instance, d the persisted baseline, readdir the listing
\* order of the split directory.
load(b, split, d, readdir) ==
    IF b.loaded THEN b
    ELSE LET data == IF split THEN _loadSplitBaseline(d, readdir)
                     ELSE _loadSingleBaseline(d)
         IN [data |-> Obj(data), index |-> Obj(_buildIndex(data)), loaded |-> TRUE]

\* Consume with the decrement forgotten.
ConsumeNothing(fileHashes, hash) == fileHashes

\* Consume that forgets every copy of the fingerprint at once.
ConsumeAll(fileHashes, hash) == MapDelete(fileHashes, hash)

\* Consume that lowers the count and keeps the entry, also at count 0.
ConsumeKeepingZero(fileHashes, hash) ==
    MapSet(fileHashes, hash, MapGet(fileHashes, hash) - 1)

\* What the consuming branch of isInBaseline does to the file's map.
Consume(fileHashes, hash) ==
    IF MapGet(fileHashes, hash) = 1
    THEN MapDelete(fileHashes, hash)
    ELSE MapSet(fileHashes, hash, MapGet(fileHashes, hash) - 1)

\* isInBaseline(filePath, ruleId, line, message): the instance afterwards and
\* the value returned.
isInBaseline(b, split, d, readdir, filePath, ruleId, line, message) ==
    LET b1 == load(b, split, d, readdir)
        relativePath == PathRelative(Cwd, filePath)
        index == b1.index.val
        hash == _generateHash(ruleId, line, message)
    IN IF ~IndexHas(index, relativePath) THEN [baseline |-> b1, val |-> FALSE]
       ELSE IF MapGet(IndexGet(index, relativePath), hash) > 0
       THEN [baseline |->
                [b1 EXCEPT !.index = Obj(
                    [i \in 1..Len(index) |->
                        IF index[i].file = relativePath
                        THEN [file |-> relativePath,
                              hashes |-> Consume(index[i].hashes, hash)]
                        ELSE index[i]])],
             val |-> TRUE]
       ELSE [baseline |-> b1, val |-> FALSE]

\* UnmatchedEntry that reports every fingerprint once.
UnmatchedEntryOnce(file, error, count) ==
    [file |-> file, ruleId |-> error.ruleId, line |-> error.line,
     column |-> error.column, message |-> error.message,
     severity |-> error.severity, unmatchedCount |-> 1]

\* { file, ...error, unmatchedCount: count }
UnmatchedEntry(file, error, count) ==
    [file |-> file, ruleId |-> error.ruleId, line |-> error.line,
     column |-> error.column, message |-> error.message,
     severity |-> error.severity, unmatchedCount |-> count]

\* FirstWithHash without the break: the last error with this hash wins.
LastWithHash(fileErrors, hash) ==
    LET hits == SelectSeq(fileErrors, LAMBDA e : HashOf(e) = hash)
    IN IF hits = <<>> THEN <<>> ELSE <<hits[Len(hits)]>>

\* The first error of fileErrors with this hash, as a list of at most one.
FirstWithHash(fileErrors, hash) ==
    LET hits == SelectSeq(fileErrors, LAMBDA e : HashOf(e) = hash)
    IN IF hits = <<>> THEN <<>> ELSE <<Head(hits)>>

RECURSIVE UnmatchedOfFile(_, _, _)
UnmatchedOfFile(file, hashes, fileErrors) ==
    IF hashes = <<>> THEN <<>>
    ELSE LET h == Head(hashes)
             found == IF h.count > 0 THEN FirstWithHash(fileErrors, h.key) ELSE <<>>
         IN [i \in 1..Len(found) |-> UnmatchedEntry(file, found[i], h.count)]
            \o UnmatchedOfFile(file, Tail(hashes), fileErrors)

RECURSIVE UnmatchedOfIndex(_, _)
UnmatchedOfIndex(index, data) ==
    IF index = <<>> THEN <<>>
    ELSE UnmatchedOfFile(Head(index).file, Head(index).hashes,
                         ErrorsOf(data, Head(index).file))
         \o UnmatchedOfIndex(Tail(index), data)

\* getUnmatched(): this.index.entries() throws a TypeError while index is null.
getUnmatched(b) ==
    IF b.index.null THEN [threw |-> TRUE, val |-> <<>>]
    ELSE [threw |-> FALSE, val |-> UnmatchedOfIndex(b.index.val, b.data.val)]

RECURSIVE CountRules(_, _)
\* ruleStats[error.ruleId] = (ruleStats[error.ruleId] || 0) + 1
CountRules(ruleStats, errors) ==
    IF errors = <<>> THEN ruleStats
    ELSE CountRules(MapSet(ruleStats, Head(errors).ruleId,
                           MapGet(ruleStats, Head(errors).ruleId) + 1),
                    Tail(errors))

RECURSIVE AllErrors(_)
\* Every error of the document, file by file.
AllErrors(data) ==
    IF data = <<>> THEN <<>> ELSE Head(data).errors \o AllErrors(Tail(data))

\* getStats() that counts what is left in the index instead of the document.
getStatsOfIndex(b1) ==
    [totalErrors |-> SeqSum([i \in 1..Len(b1.index.val) |->
                        SeqSum([j \in 1..Len(b1.index.val[i].hashes) |->
                                    b1.index.val[i].hashes[j].count])]),
     fileCount |-> Len(b1.data.val),
     ruleStats |-> CountRules(<<>>, AllErrors(b1.data.val))]

\* getStats() on the instance load() has left.
getStats(b1) ==
    [totalErrors |-> Len(AllErrors(b1.data.val)),
     fileCount |-> Len(b1.data.val),
     ruleStats |-> CountRules(<<>>, AllErrors(b1.data.val))]

reset(b) == [data |-> Null, index |-> Null, loaded |-> FALSE]

\* save() whose guard counts findings instead of file keys.
saveGuardingFindings(split, d, data, allowEmpty) ==
    IF DocSize(data) = 0 /\ ~allowEmpty
    THEN [disk |-> d, val |-> FALSE, data |-> data]
    ELSE IF split
    THEN [disk |-> _saveSplitBaseline(d, data), val |-> TRUE, data |-> data]
    ELSE [disk |-> _saveSingleBaseline(d, data), val |-> TRUE, data |-> SortedInPlace(data)]

\* save(data, { allowEmpty }): the persisted baseline afterwards, the value
\* returned, and the caller's document as the call leaves it.
save(split, d, data, allowEmpty) ==
    IF Len(DocKeys(data)) = 0 /\ ~allowEmpty
    THEN [disk |-> d, val |-> FALSE, data |-> data]
    ELSE IF split
    THEN [disk |-> _saveSplitBaseline(d, data), val |-> TRUE, data |-> data]
    ELSE [disk |-> _saveSingleBaseline(d, data), val |-> TRUE, data |-> SortedInPlace(data)]

\* exists() that looks at the single file whatever the mode.
existsSingleFile(split, d) == d.file.exists

\* exists(): fs.existsSync of the directory in split mode, of the file otherwise.
exists(split, d) == IF split THEN d.dir.exists ELSE d.file.exists

\* delete(): fs.rmSync(dir, { recursive: true }) or fs.unlinkSync(file), each
\* only when fs.existsSync says it is there.
delete(split, d) ==
    IF split
    THEN IF d.dir.exists THEN [d EXCEPT !.dir = NoDisk.dir] ELSE d
    ELSE IF d.file.exists THEN [d EXCEPT !.file = NoDisk.file] ELSE d

\* CountSeverity that takes only severity 2 for an error.
CountSeverityOfTwo(errors) ==
    [error |-> Len(SelectSeq(errors, LAMBDA e : e.severity = 2)),
     warning |-> Len(SelectSeq(errors, LAMBDA e : e.severity = 1))]

\* The severity split of getDetailedStats: severity === 1 is a warning.
CountSeverity(errors) ==
    [error |-> Len(SelectSeq(errors, LAMBDA e : e.severity # 1)),
     warning |-> Len(SelectSeq(errors, LAMBDA e : e.severity = 1))]

\* The comparator (a, b) => b.count - a.count of getDetailedStats.
CompareCountDesc(a, b) == b.count - a.count

\* getDetailedStats() on the instance load() has left.
getDetailedStats(b1) ==
    LET data == b1.data.val
        ruleStats == CountRules(<<>>, AllErrors(data))
        fileStats == [i \in 1..Len(data) |->
                        [file |-> data[i].file, count |-> Len(data[i].errors),
                         rules |-> CountRules(<<>>, data[i].errors)]]
    IN [totalErrors |-> Len(AllErrors(data)),
        fileCount |-> Len(data),
        ruleCount |-> Len(ruleStats),
        ruleStats |-> StableSort(CompareCountDesc,
                                 [i \in 1..Len(ruleStats) |->
                                    [rule |-> ruleStats[i].key, count |-> ruleStats[i].count]],
                                 <<>>),
        fileStats |-> StableSort(CompareCountDesc, fileStats, <<>>),
        severityStats |-> CountSeverity(AllErrors(data))]

\* prune's Set of hashes that holds the first finding only.
CurrentHashesOfFirst(errors) ==
    IF errors = <<>> THEN {} ELSE {HashOf(errors[1])}

\* The Set of hashes prune builds for one file of currentErrors.
CurrentHashes(errors) == {HashOf(errors[i]) : i \in 1..Len(errors)}

RECURSIVE KeptErrors(_, _)
\* The inner loop of prune: the errors whose hash is in currentHashes.
KeptErrors(errors, currentHashes) ==
    IF errors = <<>> THEN <<>>
    ELSE IF HashOf(Head(errors)) \in currentHashes
    THEN <<Head(errors)>> \o KeptErrors(Tail(errors), currentHashes)
    ELSE KeptErrors(Tail(errors), currentHashes)

RECURSIVE PruneFiles(_, _, _)
\* The outer loop of prune over Object.entries(this.data); acc is
\* [data, removedCount, keptCount].
PruneFiles(data, currentErrors, acc) ==
    IF data = <<>> THEN acc
    ELSE LET file == Head(data).file
             errors == Head(data).errors
             keptErrors == KeptErrors(errors, CurrentHashes(ErrorsOf(currentErrors, file)))
         IN PruneFiles(
                Tail(data), currentErrors,
                IF ~HasKey(currentErrors, file)
                THEN [acc EXCEPT !.removedCount = @ + Len(errors)]
                ELSE [data |-> IF Len(keptErrors) > 0
                               THEN acc.data \o <<[file |-> file, errors |-> keptErrors]>>
                               ELSE acc.data,
                      removedCount |-> acc.removedCount + (Len(errors) - Len(keptErrors)),
                      keptCount |-> acc.keptCount + Len(keptErrors)])

\* prune() that rebuilds the index on its way.
pruneRebuilding(b, split, d, readdir, currentErrors) ==
    LET b1 == load(b, split, d, readdir)
    IN [baseline |-> [b1 EXCEPT !.index = Obj(_buildIndex(b1.data.val))],
        val |-> PruneFiles(b1.data.val, currentErrors,
                           [data |-> <<>>, removedCount |-> 0, keptCount |-> 0])]

\* prune(currentErrors): the instance afterwards (it loads when the instance
\* is not loaded) and the value returned.
prune(b, split, d, readdir, currentErrors) ==
    LET b1 == load(b, split, d, readdir)
    IN [baseline |-> b1,
        val |-> PruneFiles(b1.data.val, currentErrors,
                           [data |-> <<>>, removedCount |-> 0, keptCount |-> 0])]

\* filterByRules() that keeps a file whose findings were all filtered out.
filterByRulesKeepingFiles(errors, rules) ==
    [i \in 1..Len(errors) |->
        [file |-> errors[i].file,
         errors |-> SelectSeq(errors[i].errors, LAMBDA e : e.ruleId \in Range(rules))]]

RECURSIVE FilterFiles(_, _)
\* The loop of filterByRules over Object.entries(errors).
FilterFiles(errors, ruleSet) ==
    IF errors = <<>> THEN <<>>
    ELSE LET matchingErrors == SelectSeq(Head(errors).errors, LAMBDA e : e.ruleId \in ruleSet)
         IN (IF Len(matchingErrors) > 0
             THEN <<[file |-> Head(errors).file, errors |-> matchingErrors]>>
             ELSE <<>>) \o FilterFiles(Tail(errors), ruleSet)

\* filterByRules(errors, rules): a new document; rules is an array.
filterByRules(errors, rules) == FilterFiles(errors, Range(rules))

----------------------------------------------------------------------------
(* The values the model draws its inputs from *)

fileA == <<"a">>
fileB == <<"b">>

ruleA == <<"a">>
ruleSlash == <<"a", "/", "b">>
ruleDash == <<"a", "-", "b">>
ruleColon == <<"a", ":", "1">>
ruleLoader == <<"_", "l", "o", "a", "d", "e", "r">>

msgX == <<"x">>
msgColon == <<"1", ":", "x">>

FA == Finding(ruleA, 1, 1, msgX)
FA2 == Finding(ruleA, 1, 2, msgX)        \* FA at another column
FB == Finding(ruleA, 2, 1, msgX)         \* FA on another line
FC == Finding(ruleColon, 1, 1, msgX)     \* digested text a:1:1:x
FD == Finding(ruleA, 1, 1, msgColon)     \* digested text a:1:1:x as well
FS == Finding(ruleSlash, 1, 1, msgX)     \* rule document a-b.json
FT == Finding(ruleDash, 1, 1, msgX)      \* rule document a-b.json as well
FL == Finding(ruleLoader, 1, 1, msgX)    \* rule document _loader.json

StoreFindings == {FA, FA2, FB, FS, FT, FL}
MatchFindings == {FA, FA2, FB, FC}

SeqsUpTo(S, n) == UNION {[1..k -> S] : k \in 0..n}

\* Documents over the files a and b: a alone, or b (inserted first) and a.
DocsOver(F) ==
    {<<>>}
    \cup {<<[file |-> fileA, errors |-> e]>> : e \in SeqsUpTo(F, MaxLen)}
    \cup {<<[file |-> fileB, errors |-> e2], [file |-> fileA, errors |-> e]>> :
            e \in SeqsUpTo(F, MaxLen - 1), e2 \in {<<>>, <<FA>>}}

StoreDocs == DocsOver(StoreFindings)
MatchDocs == DocsOver(MatchFindings)

\* A lookup: the arguments of one isInBaseline call.
LookupOf(file, error) ==
    [filePath |-> PathJoin(Cwd, file), ruleId |-> error.ruleId, line |-> error.line,
     message |-> error.message]

StoreLookups == {LookupOf(fileA, FA)}
MatchLookups ==
    {LookupOf(fileA, FA), LookupOf(fileA, FB), LookupOf(fileA, FD), LookupOf(fileB, FA)}
\* Lookups of one file whose digested texts coincide (FC, FD) or differ from
\* one another in one of ruleId, line and message.
IdentityLookups ==
    {LookupOf(fileA, FA), LookupOf(fileA, FB), LookupOf(fileA, FC), LookupOf(fileA, FD)}
AllLookups == StoreLookups \cup MatchLookups \cup IdentityLookups

NoCalls == [k \in AllLookups |-> 0]

\* No lookup of any file has returned true.
NoMatched == [f \in {fileA, fileB} |-> 0]

RECURSIVE SetSum(_, _)
SetSum(f, S) ==
    IF S = {} THEN 0
    ELSE LET x == CHOOSE y \in S : TRUE IN f[x] + SetSum(f, S \ {x})

TotalCalls(c) == SetSum(c, AllLookups)

\* A baseline that was not written by save: keys and lines out of order.
PriorDoc ==
    <<[file |-> fileB, errors |-> <<FA>>], [file |-> fileA, errors |-> <<FB, FS, FA>>]>>

PriorDisk ==
    [file |-> [exists |-> TRUE, content |-> JSONstringify(PriorDoc)],
     dir |-> _saveSplitBaseline(NoDisk, PriorDoc).dir]

CorruptDisk ==
    [file |-> [exists |-> TRUE, content |-> JGarbage],
     dir |-> [exists |-> TRUE,
              entries |-> {[name |-> ruleA \o JsonSuffix, content |-> JGarbage]}]]

InitDisks == {NoDisk, PriorDisk, CorruptDisk}

NoPersisted == [by |-> "none", data |-> <<>>, results |-> <<>>]

NoCall == [op |-> "none", threw |-> FALSE]

\* baselineInstance = null, no instance constructed so far.
NoInstance == [null |-> TRUE, id |-> 0]

----------------------------------------------------------------------------
(* Operations on the engine instance *)

Readdirs == Orders(EntryNames(disk.dir))

Load ==
    /\ \E readdir \in Readdirs :
          baseline' = load(baseline, splitByRule, disk, readdir)
    /\ ret' = [op |-> "load", threw |-> FALSE, val |-> baseline'.data.val]
    /\ calls' = IF baseline.loaded THEN calls ELSE NoCalls
    /\ matched' = IF baseline.loaded THEN matched ELSE NoMatched
    /\ loadedFrom' = IF baseline.loaded THEN loadedFrom ELSE disk
    /\ UNCHANGED <<splitByRule, disk, persisted, baselineInstance>>

Reset ==
    /\ baseline' = reset(baseline)
    /\ ret' = [op |-> "reset", threw |-> FALSE]
    /\ calls' = NoCalls
    /\ matched' = NoMatched
    /\ loadedFrom' = NoDisk
    /\ UNCHANGED <<splitByRule, disk, persisted, baselineInstance>>

IsInBaseline(k) ==
    /\ baseline.loaded => TotalCalls(calls) < MaxLookups
    /\ \E readdir \in Readdirs :
          LET r == isInBaseline(baseline, splitByRule, disk, readdir,
                                k.filePath, k.ruleId, k.line, k.message)
          IN /\ baseline' = r.baseline
             /\ ret' = [op |-> "isInBaseline", threw |-> FALSE, val |-> r.val, arg |-> k]
             /\ matched' = [(IF baseline.loaded THEN matched ELSE NoMatched)
                               EXCEPT ![PathRelative(Cwd, k.filePath)] =
                                          @ + (IF r.val THEN 1 ELSE 0)]
    /\ calls' = [(IF baseline.loaded THEN calls ELSE NoCalls) EXCEPT ![k] = @ + 1]
    /\ loadedFrom' = IF baseline.loaded THEN loadedFrom ELSE disk
    /\ UNCHANGED <<splitByRule, disk, persisted, baselineInstance>>

GetUnmatched ==
    /\ ret' = [op |-> "getUnmatched", threw |-> getUnmatched(baseline).threw,
               val |-> getUnmatched(baseline).val]
    /\ UNCHANGED <<splitByRule, disk, baseline, calls, matched, persisted, loadedFrom, baselineInstance>>

GetStats ==
    /\ \E readdir \in Readdirs :
          baseline' = load(baseline, splitByRule, disk, readdir)
    /\ ret' = [op |-> "getStats", threw |-> FALSE, val |-> getStats(baseline')]
    /\ calls' = IF baseline.loaded THEN calls ELSE NoCalls
    /\ matched' = IF baseline.loaded THEN matched ELSE NoMatched
    /\ loadedFrom' = IF baseline.loaded THEN loadedFrom ELSE disk
    /\ UNCHANGED <<splitByRule, disk, persisted, baselineInstance>>

GetDetailedStats ==
    /\ \E readdir \in Readdirs :
          baseline' = load(baseline, splitByRule, disk, readdir)
    /\ ret' = [op |-> "getDetailedStats", threw |-> FALSE, val |-> getDetailedStats(baseline')]
    /\ calls' = IF baseline.loaded THEN calls ELSE NoCalls
    /\ matched' = IF baseline.loaded THEN matched ELSE NoMatched
    /\ loadedFrom' = IF baseline.loaded THEN loadedFrom ELSE disk
    /\ UNCHANGED <<splitByRule, disk, persisted, baselineInstance>>

\* save(data, { allowEmpty }); own: the caller passes the document load()
\* returned, which is the instance's this.data. A behaviour follows one write
\* of the persisted baseline on top of what Init found there.
Save(data, allowEmpty, own) ==
    /\ persisted.by = "none"
    /\ own => baseline.loaded /\ data = baseline.data.val
    /\ LET r == save(splitByRule, disk, data, allowEmpty)
       IN /\ disk' = r.disk
          /\ baseline' = IF own THEN [baseline EXCEPT !.data = Obj(r.data)] ELSE baseline
          /\ ret' = [op |-> "save", threw |-> FALSE, val |-> r.val,
                     arg |-> [data |-> data, allowEmpty |-> allowEmpty, own |-> own],
                     after |-> r.data]
          /\ persisted' = IF r.val THEN [by |-> "save", data |-> data, results |-> <<>>]
                          ELSE persisted
    /\ UNCHANGED <<splitByRule, calls, matched, loadedFrom, baselineInstance>>

SaveInputs == StoreDocs \cup (IF baseline.loaded THEN {baseline.data.val} ELSE {})

----------------------------------------------------------------------------
(* Specifications *)

Init ==
    /\ splitByRule \in BOOLEAN
    /\ disk \in InitDisks
    /\ baseline = NewBaseline
    /\ ret = NoCall
    /\ calls = NoCalls
    /\ matched = NoMatched
    /\ persisted = NoPersisted
    /\ loadedFrom = NoDisk
    /\ baselineInstance = NoInstance

Next ==
    \/ Load
    \/ Reset
    \/ \E k \in StoreLookups : IsInBaseline(k)
    \/ GetUnmatched
    \/ GetStats
    \/ GetDetailedStats
    \/ \E data \in SaveInputs, allowEmpty \in BOOLEAN, own \in BOOLEAN :
          Save(data, allowEmpty, own)

\* The storage life cycle: save, load, reset and reads on one instance.
Spec == Init /\ [][Next]_vars

\* The persisted baseline of the matching specification: a document as
\* written to the single file in any order, or as saved to the directory.
MatchDisk(data) ==
    [file |-> [exists |-> TRUE, content |-> JSONstringify(data)],
     dir |-> _saveSplitBaseline(NoDisk, data).dir]

InitMatch ==
    /\ splitByRule \in BOOLEAN
    /\ disk \in {NoDisk} \cup {MatchDisk(data) : data \in MatchDocs}
    /\ baseline = NewBaseline
    /\ ret = NoCall
    /\ calls = NoCalls
    /\ matched = NoMatched
    /\ persisted = NoPersisted
    /\ loadedFrom = NoDisk
    /\ baselineInstance = NoInstance

NextMatch ==
    \/ Load
    \/ Reset
    \/ \E k \in MatchLookups : IsInBaseline(k)
    \/ GetUnmatched
    \/ GetStats
    \/ GetDetailedStats

\* Matching: lookups and reads against a persisted baseline that stays put.
SpecMatch == InitMatch /\ [][NextMatch]_vars

----------------------------------------------------------------------------
(* The formatter: handleUpdateMode and handleCheckMode *)

\* A lint message; ruleId <<>> is a message without a rule id (null or ''),
\* such as a parse error.
LintMessage(ruleId, severity, line, column, message) ==
    [ruleId |-> ruleId, severity |-> severity, line |-> line, column |-> column,
     message |-> message]

HasRuleId(msg) == msg.ruleId # <<>>

RECURSIVE CollectMessages(_, _, _)
\* The inner loop of handleUpdateMode: every message with a rule id is pushed
\* to newBaseline[relativePath].
CollectMessages(newBaseline, relativePath, messages) ==
    IF messages = <<>> THEN newBaseline
    ELSE LET msg == Head(messages)
         IN CollectMessages(
                IF HasRuleId(msg)
                THEN PushError(newBaseline, relativePath,
                               Finding(msg.ruleId, msg.line, msg.column, msg.message))
                ELSE newBaseline,
                relativePath, Tail(messages))

RECURSIVE CollectResults(_, _)
CollectResults(newBaseline, results) ==
    IF results = <<>> THEN newBaseline
    ELSE CollectResults(
            CollectMessages(newBaseline, PathRelative(Cwd, Head(results).filePath),
                            Head(results).messages),
            Tail(results))

\* handleUpdateMode(results, baseline, reporter, cwd, allowEmpty) on a new
\* Baseline: the persisted baseline afterwards and what is returned.
handleUpdateMode(results, split, d, allowEmpty) ==
    LET newBaseline == CollectResults(<<>>, results)
        saved == save(split, d, newBaseline, allowEmpty)
    IN [disk |-> saved.disk,
        saved |-> saved.val,
        newBaseline |-> newBaseline,
        stats |-> [totalErrors |-> Len(AllErrors(newBaseline)),
                   fileCount |-> Len(newBaseline),
                   ruleStats |-> CountRules(<<>>, AllErrors(newBaseline))],
        exitCode |-> IF saved.val THEN 0 ELSE 1]

RECURSIVE CheckMessagesLookingUpAll(_, _, _)
\* The inner loop of handleCheckMode without its test for a rule id: every
\* message is looked up.
CheckMessagesLookingUpAll(acc, filePath, messages) ==
    IF messages = <<>> THEN acc
    ELSE LET msg == Head(messages)
             r == isInBaseline(acc.baseline, FALSE, NoDisk, <<>>,
                               filePath, msg.ruleId, msg.line, msg.message)
         IN CheckMessagesLookingUpAll(
                IF r.val
                THEN [acc EXCEPT !.baseline = r.baseline, !.baselinedCount = @ + 1]
                ELSE [acc EXCEPT !.baseline = r.baseline,
                                 !.fileNewErrors = Append(@, msg)],
                filePath, Tail(messages))

RECURSIVE CheckMessages(_, _, _)
\* The inner loop of handleCheckMode; acc is [baseline, fileNewErrors,
\* baselinedCount].
CheckMessages(acc, filePath, messages) ==
    IF messages = <<>> THEN acc
    ELSE LET msg == Head(messages)
             r == isInBaseline(acc.baseline, FALSE, NoDisk, <<>>,
                               filePath, msg.ruleId, msg.line, msg.message)
         IN CheckMessages(
                IF ~HasRuleId(msg)
                THEN [acc EXCEPT !.fileNewErrors = Append(@, msg)]
                ELSE IF r.val
                THEN [acc EXCEPT !.baseline = r.baseline, !.baselinedCount = @ + 1]
                ELSE [acc EXCEPT !.baseline = r.baseline,
                                 !.fileNewErrors = Append(@, msg)],
                filePath, Tail(messages))

RECURSIVE CheckResults(_, _)
\* The outer loop of handleCheckMode; acc is [baseline, newErrors,
\* baselinedCount].
CheckResults(acc, results) ==
    IF results = <<>> THEN acc
    ELSE LET result == Head(results)
             r == CheckMessages([baseline |-> acc.baseline, fileNewErrors |-> <<>>,
                                 baselinedCount |-> acc.baselinedCount],
                                result.filePath, result.messages)
         IN CheckResults(
                [baseline |-> r.baseline,
                 newErrors |->
                    IF Len(r.fileNewErrors) > 0
                    THEN Append(acc.newErrors,
                                [filePath |-> result.filePath,
                                 relativePath |-> PathRelative(Cwd, result.filePath),
                                 messages |-> r.fileNewErrors])
                    ELSE acc.newErrors,
                 baselinedCount |-> r.baselinedCount],
                Tail(results))

\* getExitCode that takes a warning for an error.
exitCodeCountingWarnings(newErrors, unmatched, reportUnmatchedAsError) ==
    IF \E i \in 1..Len(newErrors) : \E j \in 1..Len(newErrors[i].messages) :
            newErrors[i].messages[j].severity >= 1
    THEN 1
    ELSE IF reportUnmatchedAsError /\ Len(unmatched) > 0 THEN 1
    ELSE 0

\* Reporter.getExitCode(results, options)
getExitCode(newErrors, unmatched, reportUnmatchedAsError) ==
    IF \E i \in 1..Len(newErrors) : \E j \in 1..Len(newErrors[i].messages) :
            newErrors[i].messages[j].severity = 2
    THEN 1
    ELSE IF reportUnmatchedAsError /\ Len(unmatched) > 0 THEN 1
    ELSE 0

\* handleCheckMode that hands reportUnmatched to getExitCode as its
\* reportUnmatchedAsError option.
handleCheckModePassingOption(results, split, d, readdir, reportUnmatched) ==
    LET loaded == load(NewBaseline, split, d, readdir)
        r == CheckResults([baseline |-> loaded, newErrors |-> <<>>, baselinedCount |-> 0],
                          results)
        unmatched == getUnmatched(r.baseline).val
    IN [newErrors |-> r.newErrors,
        baselinedCount |-> r.baselinedCount,
        unmatched |-> unmatched,
        showUnmatchedDetails |-> reportUnmatched,
        exitCode |-> getExitCode(r.newErrors, unmatched, reportUnmatched)]

\* handleCheckMode(results, baseline, reporter, cwd, reportUnmatched) on a new
\* Baseline; getExitCode is called without options.
handleCheckMode(results, split, d, readdir, reportUnmatched) ==
    LET loaded == load(NewBaseline, split, d, readdir)
        r == CheckResults([baseline |-> loaded, newErrors |-> <<>>, baselinedCount |-> 0],
                          results)
        unmatched == getUnmatched(r.baseline).val
    IN [newErrors |-> r.newErrors,
        baselinedCount |-> r.baselinedCount,
        unmatched |-> unmatched,
        showUnmatchedDetails |-> reportUnmatched,
        exitCode |-> getExitCode(r.newErrors, unmatched, FALSE)]

\* Lint messages: FA as a warning, the _loader rule as an error, and two
\* messages without a rule id.
LintOf(error, severity) ==
    LintMessage(error.ruleId, severity, error.line, error.column, error.message)

LintMessages ==
    {LintOf(FA, 1), LintOf(FL, 2),
     LintMessage(<<>>, 2, 1, 1, msgX), LintMessage(<<>>, 1, 2, 1, msgX)}

\* Lint results for the file a, or for b and then a.
LintResults ==
    {<<>>}
    \cup {<<[filePath |-> PathJoin(Cwd, fileA), messages |-> m]>> :
            m \in SeqsUpTo(LintMessages, MaxLen)}
    \cup {<<[filePath |-> PathJoin(Cwd, fileB), messages |-> <<LintOf(FA, 1)>>],
            [filePath |-> PathJoin(Cwd, fileA), messages |-> m]>> :
            m \in SeqsUpTo(LintMessages, MaxLen - 1)}

\* One run of the formatter in update mode; a behaviour has one successful
\* update, over whatever baseline was persisted before.
FormatterUpdate(results, allowEmpty) ==
    /\ persisted.by = "none"
    /\ LET r == handleUpdateMode(results, splitByRule, disk, allowEmpty)
       IN /\ disk' = r.disk
          /\ ret' = [op |-> "update", threw |-> FALSE, val |-> r,
                     arg |-> [results |-> results, allowEmpty |-> allowEmpty]]
          /\ persisted' = IF r.saved
                          THEN [by |-> "update", data |-> r.newBaseline, results |-> results]
                          ELSE persisted
    /\ UNCHANGED <<splitByRule, baseline, calls, matched, loadedFrom, baselineInstance>>

\* One run of the formatter in check mode, with createFormatter's default
\* reportUnmatched = false.
FormatterCheck(results) ==
    /\ \E readdir \in Readdirs :
          ret' = [op |-> "check", threw |-> FALSE,
                  val |-> handleCheckMode(results, splitByRule, disk, readdir, FALSE),
                  arg |-> [results |-> results]]
    /\ UNCHANGED <<splitByRule, disk, baseline, calls, matched, persisted, loadedFrom, baselineInstance>>

NextFormatter ==
    \/ \E results \in LintResults, allowEmpty \in BOOLEAN :
          FormatterUpdate(results, allowEmpty)
    \/ \E results \in LintResults : FormatterCheck(results)

\* Formatter runs, each on an engine of its own, sharing the persisted baseline.
SpecFormatter == Init /\ [][NextFormatter]_vars

----------------------------------------------------------------------------
(* Pruning and filtering *)

\* Documents of current findings handed to prune: nothing, the file a with
\* no finding, with one or two, with the finding whose digested text is that
\* of FC, the file b alone, and both files.
CurrentDocs ==
    {<<>>,
     <<[file |-> fileA, errors |-> <<>>]>>,
     <<[file |-> fileA, errors |-> <<FA>>]>>,
     <<[file |-> fileA, errors |-> <<FD>>]>>,
     <<[file |-> fileA, errors |-> <<FB, FA2>>]>>,
     <<[file |-> fileB, errors |-> <<FA>>]>>,
     <<[file |-> fileB, errors |-> <<FA>>], [file |-> fileA, errors |-> <<FB>>]>>}

\* Documents and rule lists handed to filterByRules.
FilterDocs ==
    {<<>>,
     <<[file |-> fileA, errors |-> <<>>]>>,
     PriorDoc,
     <<[file |-> fileA, errors |-> <<FS, FT, FS>>]>>,
     <<[file |-> fileB, errors |-> <<FA>>], [file |-> fileA, errors |-> <<FL>>]>>}

FilterRules ==
    {<<>>, <<ruleA>>, <<ruleSlash>>, <<ruleSlash, ruleA>>, <<ruleA, ruleA>>}

Prune(currentErrors) ==
    /\ \E readdir \in Readdirs :
          LET r == prune(baseline, splitByRule, disk, readdir, currentErrors)
          IN /\ baseline' = r.baseline
             /\ ret' = [op |-> "prune", threw |-> FALSE, val |-> r.val,
                        arg |-> currentErrors]
    /\ calls' = IF baseline.loaded THEN calls ELSE NoCalls
    /\ matched' = IF baseline.loaded THEN matched ELSE NoMatched
    /\ loadedFrom' = IF baseline.loaded THEN loadedFrom ELSE disk
    /\ UNCHANGED <<splitByRule, disk, persisted, baselineInstance>>

\* filterByRules(errors, rules), and filterByRules applied to its result with
\* the same rules.
FilterByRules(errors, rules) ==
    /\ ret' = [op |-> "filterByRules", threw |-> FALSE,
               val |-> filterByRules(errors, rules),
               again |-> filterByRules(filterByRules(errors, rules), rules),
               arg |-> [errors |-> errors, rules |-> rules],
               after |-> errors]
    /\ UNCHANGED <<splitByRule, disk, baseline, calls, matched, persisted, loadedFrom, baselineInstance>>

NextPrune ==
    \/ Load
    \/ Reset
    \/ \E k \in StoreLookups : IsInBaseline(k)
    \/ \E currentErrors \in CurrentDocs : Prune(currentErrors)
    \/ \E errors \in FilterDocs, rules \in FilterRules : FilterByRules(errors, rules)

\* Pruning and filtering on an instance whose persisted baseline stays put.
SpecPrune == InitMatch /\ [][NextPrune]_vars

----------------------------------------------------------------------------
(* Decoding of persisted baselines that save did not write *)

\* Array elements a baseline file can hold: two valid entries, null, a
\* string, an entry with a numeric ruleId, without ruleId, with a string
\* line, and with the ruleId ''.
DecodeEntries ==
    {StringifyFinding(FA), StringifyFinding(FB), JNull, JStr(msgX),
     JEntry(JNum(1), JNum(1), JUndef, JStr(msgX), JUndef),
     JEntry(JUndef, JNum(1), JUndef, JStr(msgX), JUndef),
     JEntry(JStr(ruleA), JStr(<<"1">>), JUndef, JStr(msgX), JUndef),
     JEntry(JStr(<<>>), JNum(1), JUndef, JStr(msgX), JUndef)}

\* Values of a file key that are not arrays.
DecodeNonArrays == {JStr(msgX), JNull, JObj(<<>>)}

\* Contents of a baseline file: a text that does not parse, null, a number,
\* a string, arrays, and objects with the file a alone or with the file b
\* (holding a value that is not an array) before or after it.
DecodeContents ==
    {JGarbage, JNull, JNum(1), JStr(msgX), JArr(<<>>),
     JArr(<<JArr(<<StringifyFinding(FA)>>)>>)}
    \cup {JObj(<<[k |-> fileA, v |-> JArr(es)]>>) : es \in SeqsUpTo(DecodeEntries, MaxLen)}
    \cup {JObj(<<[k |-> fileB, v |-> bad], [k |-> fileA, v |-> JArr(es)]>>) :
            bad \in DecodeNonArrays, es \in SeqsUpTo(DecodeEntries, MaxLen)}
    \cup {JObj(<<[k |-> fileA, v |-> JArr(es)], [k |-> fileB, v |-> bad]>>) :
            bad \in DecodeNonArrays, es \in SeqsUpTo(DecodeEntries, MaxLen - 1)}

\* The second rule document of the directory: none, one that does not parse,
\* or one with a finding of the rule a/b for the file a, or for b and for a.
DecodeSiblings ==
    {JUndef, JGarbage, JSONstringify(<<[file |-> fileA, errors |-> <<FS>>]>>),
     JSONstringify(<<[file |-> fileB, errors |-> <<FS>>], [file |-> fileA, errors |-> <<FS>>]>>)}

\* The content as the single file and as the rule document a.json, next to
\* the second rule document a-b.json.
DecodeDisk(content, sibling) ==
    [file |-> [exists |-> TRUE, content |-> content],
     dir |-> [exists |-> TRUE,
              entries |-> {[name |-> ruleA \o JsonSuffix, content |-> content]}
                          \cup (IF sibling = JUndef THEN {}
                                ELSE {[name |-> ruleDash \o JsonSuffix,
                                       content |-> sibling]})]]

InitDecode ==
    /\ splitByRule \in BOOLEAN
    /\ disk \in {NoDisk} \cup {DecodeDisk(content, sibling) :
                                content \in DecodeContents, sibling \in DecodeSiblings}
    /\ baseline = NewBaseline
    /\ ret = NoCall
    /\ calls = NoCalls
    /\ matched = NoMatched
    /\ persisted = NoPersisted
    /\ loadedFrom = NoDisk
    /\ baselineInstance = NoInstance

NextDecode ==
    \/ Load
    \/ Reset

\* Loading what some other writer left on disk.
SpecDecode == InitDecode /\ [][NextDecode]_vars

----------------------------------------------------------------------------
(* Loading a directory next to what its _loader.json holds *)

\* _loader.json: absent, a text that does not parse, the manifest save writes,
\* or a text that reads as a baseline document.
SplitManifests ==
    {JUndef, JGarbage, Manifest(<<ruleA \o JsonSuffix>>),
     JSONstringify(<<[file |-> fileA, errors |-> <<FB>>]>>)}

SplitDisk(content, sibling, manifest) ==
    [DecodeDisk(content, sibling) EXCEPT
        !.dir.entries = @ \cup (IF manifest = JUndef THEN {}
                                ELSE {[name |-> LoaderFile, content |-> manifest]})]

InitSplitLoad ==
    /\ splitByRule = TRUE
    /\ disk \in {SplitDisk(content, sibling, manifest) :
                   content \in DecodeContents, sibling \in DecodeSiblings,
                   manifest \in SplitManifests}
    /\ baseline = NewBaseline
    /\ ret = NoCall
    /\ calls = NoCalls
    /\ matched = NoMatched
    /\ persisted = NoPersisted
    /\ loadedFrom = NoDisk
    /\ baselineInstance = NoInstance

\* Loading a directory of rule documents some other writer left.
SpecSplitLoad == InitSplitLoad /\ [][NextDecode]_vars

----------------------------------------------------------------------------
(* A split-mode save that stops at one of its file-system calls *)

\* The file-system calls of _saveSplitBaseline in the order it makes them:
\* mkdirSync when the directory is missing, one unlinkSync per existing
\* '.json' file in the order readdirSync lists them, one writeFileSync per
\* rule in first-seen order, and the writeFileSync of _loader.json.
SaveSteps(d, data, readdir) ==
    LET byRule == GroupByRule(<<>>, data)
        existingFiles == SelectSeq(readdir, LAMBDA f : EndsWith(f, JsonSuffix))
        ruleFiles == [i \in 1..Len(byRule) |-> byRule[i].rule \o JsonSuffix]
    IN (IF d.dir.exists THEN <<>> ELSE <<[op |-> "mkdir"]>>)
       \o [i \in 1..Len(existingFiles) |-> [op |-> "unlink", name |-> existingFiles[i]]]
       \o [i \in 1..Len(byRule) |->
             [op |-> "write", name |-> ruleFiles[i],
              content |-> JSONstringify(_sortBaseline(byRule[i].data))]]
       \o <<[op |-> "write", name |-> LoaderFile,
             content |-> Manifest(SortKeys(ruleFiles))]>>

\* The directory after one file-system call.
ApplyStep(dir, step) ==
    IF step.op = "mkdir" THEN [dir EXCEPT !.exists = TRUE]
    ELSE IF step.op = "unlink"
    THEN [dir EXCEPT !.entries = {e \in @ : e.name # step.name}]
    ELSE WriteEntry(dir, step.name, step.content)

RECURSIVE RunSteps(_, _, _)
\* The directory after the first n calls.
RunSteps(dir, steps, n) ==
    IF n = 0 \/ steps = <<>> THEN dir
    ELSE RunSteps(ApplyStep(dir, Head(steps)), Tail(steps), n - 1)

\* _saveSplitBaseline whose k-th file-system call throws: the calls before
\* it have taken effect, nothing is caught and nothing is undone.
saveSplitFailingAt(d, data, readdir, k) ==
    [d EXCEPT !.dir = RunSteps(d.dir, SaveSteps(d, data, readdir), k - 1)]

\* save(data, { allowEmpty }) in split mode, stopped by the exception of its
\* k-th file-system call.
SaveInterrupted(data, allowEmpty, k) ==
    /\ splitByRule
    /\ persisted.by = "none"
    /\ ~(Len(DocKeys(data)) = 0 /\ ~allowEmpty)
    /\ \E readdir \in Readdirs :
          /\ k \in 1..Len(SaveSteps(disk, data, readdir))
          /\ disk' = saveSplitFailingAt(disk, data, readdir, k)
          /\ ret' = [op |-> "save", threw |-> TRUE,
                     arg |-> [data |-> data, allowEmpty |-> allowEmpty, own |-> FALSE],
                     before |-> disk,
                     step |-> SaveSteps(disk, data, readdir)[k]]
    /\ persisted' = [by |-> "interrupted", data |-> data, results |-> <<>>]
    /\ UNCHANGED <<splitByRule, baseline, calls, matched, loadedFrom, baselineInstance>>

\* The steps a save of the documents of the model can have.
MaxSteps == 2 * MaxLen + 3

InitInterrupted ==
    /\ splitByRule = TRUE
    /\ disk \in InitDisks
    /\ baseline = NewBaseline
    /\ ret = NoCall
    /\ calls = NoCalls
    /\ matched = NoMatched
    /\ persisted = NoPersisted
    /\ loadedFrom = NoDisk
    /\ baselineInstance = NoInstance

NextInterrupted ==
    \/ Load
    \/ Reset
    \/ \E data \in StoreDocs, allowEmpty \in BOOLEAN, k \in 1..MaxSteps :
          SaveInterrupted(data, allowEmpty, k)

\* One split-mode save that fails, on top of what Init found in the directory.
SpecInterrupted == InitInterrupted /\ [][NextInterrupted]_vars

----------------------------------------------------------------------------
(* Existence and removal of the persisted baseline *)

Exists ==
    /\ ret' = [op |-> "exists", threw |-> FALSE, val |-> exists(splitByRule, disk),
               before |-> disk, engine |-> baseline]
    /\ UNCHANGED <<splitByRule, disk, baseline, calls, matched, persisted, loadedFrom, baselineInstance>>

Delete ==
    /\ disk' = delete(splitByRule, disk)
    /\ ret' = [op |-> "delete", threw |-> FALSE, before |-> disk, engine |-> baseline]
    /\ persisted' = [by |-> "delete", data |-> <<>>, results |-> <<>>]
    /\ UNCHANGED <<splitByRule, baseline, calls, matched, loadedFrom, baselineInstance>>

NextStorage ==
    \/ Load
    \/ Reset
    \/ \E k \in StoreLookups : IsInBaseline(k)
    \/ \E data \in {<<>>, PriorDoc}, allowEmpty \in BOOLEAN : Save(data, allowEmpty, FALSE)
    \/ Exists
    \/ Delete

\* save, exists and delete on one instance, on top of what Init found.
SpecStorage == Init /\ [][NextStorage]_vars

----------------------------------------------------------------------------
(* Lookups that tell findings apart *)

NextIdentity ==
    \/ Load
    \/ Reset
    \/ \E k \in IdentityLookups : IsInBaseline(k)

\* Matching of one file's findings on a fixed persisted baseline.
SpecIdentity == InitMatch /\ [][NextIdentity]_vars

----------------------------------------------------------------------------
(* The exit code of a check *)

\* Messages of severity 1 (warning), 2 (error) and 0.
ExitMessages == {LintOf(FA, 1), LintOf(FL, 2), LintOf(FB, 0)}

\* The newErrors argument: the files a, or b and then a, with their messages.
ExitNewErrors ==
    {<<>>}
    \cup {<<[filePath |-> PathJoin(Cwd, fileA), relativePath |-> fileA, messages |-> m]>> :
            m \in SeqsUpTo(ExitMessages, MaxLen)}
    \cup {<<[filePath |-> PathJoin(Cwd, fileB), relativePath |-> fileB, messages |-> m2],
            [filePath |-> PathJoin(Cwd, fileA), relativePath |-> fileA, messages |-> m]>> :
            m \in SeqsUpTo(ExitMessages, MaxLen), m2 \in SeqsUpTo(ExitMessages, 1)}

\* The unmatched argument: empty, or one baseline entry that no message matched.
ExitUnmatched == {<<>>, <<UnmatchedEntry(fileA, FA, 1)>>}

GetExitCode(newErrors, unmatched, reportUnmatchedAsError) ==
    /\ ret' = [op |-> "getExitCode", threw |-> FALSE,
               val |-> getExitCode(newErrors, unmatched, reportUnmatchedAsError),
               arg |-> [newErrors |-> newErrors, unmatched |-> unmatched,
                        reportUnmatchedAsError |-> reportUnmatchedAsError]]
    /\ UNCHANGED <<splitByRule, disk, baseline, calls, matched, persisted, loadedFrom, baselineInstance>>

NextExit ==
    \E newErrors \in ExitNewErrors, unmatched \in ExitUnmatched,
       reportUnmatchedAsError \in BOOLEAN :
        GetExitCode(newErrors, unmatched, reportUnmatchedAsError)

\* Reporter.getExitCode on the results of a check.
SpecExit == Init /\ [][NextExit]_vars

----------------------------------------------------------------------------
(* Statistics of a baseline whose entries carry a severity *)

FW == [FA EXCEPT !.severity = 1]         \* FA persisted as a warning
FE == [FB EXCEPT !.severity = 2]         \* FB persisted as an error

StatsFindings == {FA, FW, FE, FC}

\* Documents with a alone, or with b (one entry) before a (up to MaxLen).
StatsDocs ==
    {<<>>}
    \cup {<<[file |-> fileA, errors |-> e]>> : e \in SeqsUpTo(StatsFindings, MaxLen)}
    \cup {<<[file |-> fileB, errors |-> e2], [file |-> fileA, errors |-> e]>> :
            e \in SeqsUpTo(StatsFindings, MaxLen), e2 \in {<<FC>>, <<FW>>}}

InitStats ==
    /\ splitByRule \in BOOLEAN
    /\ disk \in {MatchDisk(data) : data \in StatsDocs}
    /\ baseline = NewBaseline
    /\ ret = NoCall
    /\ calls = NoCalls
    /\ matched = NoMatched
    /\ persisted = NoPersisted
    /\ loadedFrom = NoDisk
    /\ baselineInstance = NoInstance

NextStats ==
    \/ Load
    \/ Reset
    \/ \E k \in StoreLookups : IsInBaseline(k)
    \/ GetStats
    \/ GetDetailedStats

\* Statistics and lookups on a fixed persisted baseline.
SpecStats == InitStats /\ [][NextStats]_vars

----------------------------------------------------------------------------
(* Lookups, the unmatched report and check runs on one persisted baseline *)

\* Lint results of a check run: none; FA twice for the file a; or FA for the
\* file b and, for a, a message that collides with FC and one without a rule.
ConserveResults ==
    {<<>>,
     <<[filePath |-> PathJoin(Cwd, fileA), messages |-> <<LintOf(FA, 2), LintOf(FA, 2)>>]>>,
     <<[filePath |-> PathJoin(Cwd, fileB), messages |-> <<LintOf(FA, 1)>>],
       [filePath |-> PathJoin(Cwd, fileA),
        messages |-> <<LintOf(FD, 1), LintMessage(<<>>, 2, 1, 1, msgX)>>]>>}

\* The persisted documents: FA, FA at another column, and FC.
ConserveDocs == DocsOver({FA, FA2, FC})

\* Lookups of FA in both files and one that collides with FC.
ConserveLookups == {LookupOf(fileA, FA), LookupOf(fileA, FD), LookupOf(fileB, FA)}

InitConserve ==
    /\ splitByRule \in BOOLEAN
    /\ disk \in {MatchDisk(data) : data \in ConserveDocs}
    /\ baseline = NewBaseline
    /\ ret = NoCall
    /\ calls = NoCalls
    /\ matched = NoMatched
    /\ persisted = NoPersisted
    /\ loadedFrom = NoDisk
    /\ baselineInstance = NoInstance

NextConserve ==
    \/ Load
    \/ Reset
    \/ \E k \in ConserveLookups : IsInBaseline(k)
    \/ GetUnmatched
    \/ \E results \in ConserveResults : FormatterCheck(results)

\* The engine's lookups and unmatched report, and check runs of the formatter
\* on engines of their own, against a persisted baseline that stays put.
SpecConserve == InitConserve /\ [][NextConserve]_vars

----------------------------------------------------------------------------
(* Check runs of the formatter with and without reportUnmatched *)

\* A baseline entry whose ruleId is the empty string, which validation keeps.
FN == Finding(<<>>, 1, 1, msgX)

\* The persisted documents of the check runs: none, FA once and twice, FA
\* with an entry that has an empty ruleId, and the files b and a.
CheckDocs ==
    {<<>>,
     <<[file |-> fileA, errors |-> <<FA>>]>>,
     <<[file |-> fileA, errors |-> <<FA, FA>>]>>,
     <<[file |-> fileA, errors |-> <<FN, FA>>]>>,
     <<[file |-> fileB, errors |-> <<FA>>], [file |-> fileA, errors |-> <<FB>>]>>}

\* Lint messages of the check runs: FA and FB as errors, and messages
\* without a rule id of both severities.
CheckLint ==
    {LintOf(FA, 2), LintOf(FB, 2),
     LintMessage(<<>>, 2, 1, 1, msgX), LintMessage(<<>>, 1, 1, 1, msgX)}

\* Lint results: the file a alone, a result without messages before it, the
\* file b before it, or the file a in two results.
CheckLintResults ==
    {<<[filePath |-> PathJoin(Cwd, fileA), messages |-> m]>> :
        m \in SeqsUpTo(CheckLint, MaxLen)}
    \cup {<<[filePath |-> PathJoin(Cwd, fileB), messages |-> m2],
            [filePath |-> PathJoin(Cwd, fileA), messages |-> <<m>>]>> :
            m \in CheckLint, m2 \in {<<>>, <<LintOf(FA, 2)>>}}
    \cup {<<[filePath |-> PathJoin(Cwd, fileA), messages |-> <<m>>],
            [filePath |-> PathJoin(Cwd, fileA), messages |-> <<m2>>]>> :
            m \in CheckLint, m2 \in {LintOf(FA, 2), LintMessage(<<>>, 1, 1, 1, msgX)}}

\* One run of the formatter in check mode, created with the given
\* reportUnmatched option.
FormatterCheckReporting(results, reportUnmatched) ==
    /\ \E readdir \in Readdirs :
          ret' = [op |-> "check", threw |-> FALSE,
                  val |-> handleCheckMode(results, splitByRule, disk, readdir,
                                          reportUnmatched),
                  arg |-> [results |-> results, reportUnmatched |-> reportUnmatched]]
    /\ UNCHANGED <<splitByRule, disk, baseline, calls, matched, persisted, loadedFrom, baselineInstance>>

InitCheck ==
    /\ splitByRule \in BOOLEAN
    /\ disk \in {NoDisk} \cup {MatchDisk(data) : data \in CheckDocs}
    /\ baseline = NewBaseline
    /\ ret = NoCall
    /\ calls = NoCalls
    /\ matched = NoMatched
    /\ persisted = NoPersisted
    /\ loadedFrom = NoDisk
    /\ baselineInstance = NoInstance

NextCheck ==
    \E results \in CheckLintResults, reportUnmatched \in BOOLEAN :
        FormatterCheckReporting(results, reportUnmatched)

\* Check runs of the formatter, each on an engine of its own, against a
\* persisted baseline that stays put.
SpecCheck == InitCheck /\ [][NextCheck]_vars

----------------------------------------------------------------------------
(* The processor: getBaseline, resetBaseline and postprocess *)

\* messages.flat()
Flat(messages) ==
    AllErrors([i \in 1..Len(messages) |-> [errors |-> messages[i]]])

RECURSIVE FilterMessages(_, _, _, _, _, _)
\* The loop of postprocess; acc is [baseline, val], val the filteredMessages.
FilterMessages(acc, split, d, readdir, filename, allMessages) ==
    IF allMessages = <<>> THEN acc
    ELSE LET msg == Head(allMessages)
             r == isInBaseline(acc.baseline, split, d, readdir,
                               filename, msg.ruleId, msg.line, msg.message)
         IN FilterMessages(
                IF ~HasRuleId(msg)
                THEN [acc EXCEPT !.val = Append(@, msg)]
                ELSE IF ~r.val
                THEN [baseline |-> r.baseline, val |-> Append(acc.val, msg)]
                ELSE [baseline |-> r.baseline, val |-> acc.val],
                split, d, readdir, filename, Tail(allMessages))

\* postprocess(messages, filename) on the instance getBaseline() returned.
postprocess(b, split, d, readdir, messages, filename) ==
    IF b.data.null \/ Len(DocKeys(b.data.val)) = 0
    THEN [baseline |-> b, val |-> Flat(messages)]
    ELSE FilterMessages([baseline |-> b, val |-> <<>>], split, d, readdir,
                        filename, Flat(messages))

\* Options of a getBaseline call: none, the working directory, another one.
OtherCwd == <<"/", "v">>
GetBaselineOptions == {<<>>, Cwd, OtherCwd}

\* getBaseline that constructs and loads a Baseline on every call.
getBaselineAlwaysNew(instance, b, split, d, readdir) ==
    [instance |-> [null |-> FALSE, id |-> instance.id + 1],
     baseline |-> load(NewBaseline, split, d, readdir)]

\* getBaseline(options): the module's baselineInstance and the state of the
\* engine it refers to afterwards. The Baseline is constructed with the
\* module's own cwd; a first call is made with no cwd or with that one.
getBaseline(instance, b, split, d, readdir) ==
    IF instance.null
    THEN [instance |-> [null |-> FALSE, id |-> instance.id + 1],
          baseline |-> load(NewBaseline, split, d, readdir)]
    ELSE [instance |-> instance, baseline |-> b]

\* resetBaseline()
resetBaseline(instance, b) ==
    [instance |-> [instance EXCEPT !.null = TRUE],
     baseline |-> IF instance.null THEN b ELSE reset(b)]

\* What postprocess is called with: a file and the messages of its blocks.
ProcessorMessages ==
    {LintOf(FA, 2), LintOf(FB, 1), LintMessage(<<>>, 2, 1, 1, msgX)}

ProcessorInputs ==
    {[filename |-> PathJoin(Cwd, fileA), messages |-> <<m>>] :
        m \in SeqsUpTo(ProcessorMessages, 1)
               \cup {<<LintOf(FA, 2), LintOf(FA, 2)>>,
                     <<LintMessage(<<>>, 2, 1, 1, msgX), LintOf(FB, 1)>>,
                     <<LintOf(FB, 1), LintOf(FA, 2)>>}}
    \cup {[filename |-> PathJoin(Cwd, fileA),
           messages |-> <<<<LintOf(FA, 2)>>, <<LintMessage(<<>>, 2, 1, 1, msgX)>>>>],
          [filename |-> PathJoin(Cwd, fileB), messages |-> <<<<LintOf(FA, 2)>>>>]}

\* The persisted documents the processor reads.
ProcessorDocs ==
    {<<>>,
     <<[file |-> fileA, errors |-> <<FA>>]>>,
     <<[file |-> fileA, errors |-> <<FA, FA>>]>>,
     <<[file |-> fileA, errors |-> <<FN, FB>>]>>,
     <<[file |-> fileB, errors |-> <<FA>>], [file |-> fileA, errors |-> <<FA>>]>>}

RECURSIVE CountLookups(_, _, _)
\* The calls history after the lookups of one postprocess call.
CountLookups(c, filename, allMessages) ==
    IF allMessages = <<>> THEN c
    ELSE LET msg == Head(allMessages)
             k == [filePath |-> filename, ruleId |-> msg.ruleId, line |-> msg.line,
                   message |-> msg.message]
         IN CountLookups(IF HasRuleId(msg) THEN [c EXCEPT ![k] = @ + 1] ELSE c,
                         filename, Tail(allMessages))

MaxInstances == 2  \* Baseline instances the processor constructs

GetBaseline(options) ==
    /\ baselineInstance.null => (options \in {<<>>, Cwd} /\ baselineInstance.id < MaxInstances)
    /\ \E readdir \in Readdirs :
          LET g == getBaseline(baselineInstance, baseline, splitByRule, disk, readdir)
          IN /\ baselineInstance' = g.instance
             /\ baseline' = g.baseline
             /\ ret' = [op |-> "getBaseline", threw |-> FALSE, val |-> g.instance,
                        arg |-> options, engine |-> g.baseline]
    /\ calls' = IF baselineInstance.null THEN NoCalls ELSE calls
    /\ matched' = IF baselineInstance.null THEN NoMatched ELSE matched
    /\ loadedFrom' = IF baselineInstance.null THEN disk ELSE loadedFrom
    /\ UNCHANGED <<splitByRule, disk, persisted>>

ResetBaseline ==
    /\ LET r == resetBaseline(baselineInstance, baseline)
       IN /\ baselineInstance' = r.instance
          /\ baseline' = r.baseline
    /\ ret' = [op |-> "resetBaseline", threw |-> FALSE]
    /\ calls' = NoCalls
    /\ matched' = NoMatched
    /\ loadedFrom' = NoDisk
    /\ UNCHANGED <<splitByRule, disk, persisted>>

Postprocess(in) ==
    /\ baselineInstance.null => baselineInstance.id < MaxInstances
    /\ \E readdir \in Readdirs :
          LET g == getBaseline(baselineInstance, baseline, splitByRule, disk, readdir)
              r == postprocess(g.baseline, splitByRule, disk, readdir,
                               in.messages, in.filename)
              looked == IF g.baseline.data.null \/ Len(DocKeys(g.baseline.data.val)) = 0
                        THEN <<>> ELSE SelectSeq(Flat(in.messages), HasRuleId)
              c == IF baselineInstance.null THEN NoCalls ELSE calls
              m == IF baselineInstance.null THEN NoMatched ELSE matched
          IN /\ TotalCalls(c) + Len(looked) <= MaxLookups
             /\ baselineInstance' = g.instance
             /\ baseline' = r.baseline
             /\ ret' = [op |-> "postprocess", threw |-> FALSE, val |-> r.val, arg |-> in,
                        instance |-> g.instance, before |-> g.baseline]
             /\ calls' = CountLookups(c, in.filename, looked)
             /\ matched' = [m EXCEPT ![PathRelative(Cwd, in.filename)] =
                               IF looked = <<>> THEN @
                               ELSE @ + Len(looked) - Len(SelectSeq(r.val, HasRuleId))]
    /\ loadedFrom' = IF baselineInstance.null THEN disk ELSE loadedFrom
    /\ UNCHANGED <<splitByRule, disk, persisted>>

InitProcessor ==
    /\ splitByRule \in BOOLEAN
    /\ disk \in {NoDisk} \cup {MatchDisk(data) : data \in ProcessorDocs}
    /\ baseline = NewBaseline
    /\ ret = NoCall
    /\ calls = NoCalls
    /\ matched = NoMatched
    /\ persisted = NoPersisted
    /\ loadedFrom = NoDisk
    /\ baselineInstance = NoInstance

NextProcessor ==
    \/ \E options \in GetBaselineOptions : GetBaseline(options)
    \/ ResetBaseline
    \/ \E in \in ProcessorInputs : Postprocess(in)

\* One process of the analyzer: the processor's calls on the module's one
\* instance, against a persisted baseline that stays put.
SpecProcessor == InitProcessor /\ [][NextProcessor]_vars

----------------------------------------------------------------------------
(* The command line: --prune and --update with --suppress-rule *)

\* currentErrors[relativePath] = ...: the key keeps its place when it is
\* there already.
SetErrors(data, file, errors) ==
    IF HasKey(data, file)
    THEN [i \in 1..Len(data) |->
            IF data[i].file = file THEN [file |-> file, errors |-> errors] ELSE data[i]]
    ELSE Append(data, [file |-> file, errors |-> errors])

\* result.messages.filter((m) => m.ruleId).map(...): the findings of the
\* messages that have a rule id, with their severity.
CurrentOfMessages(messages) ==
    LET withRule == SelectSeq(messages, HasRuleId)
    IN [i \in 1..Len(withRule) |->
          [Finding(withRule[i].ruleId, withRule[i].line, withRule[i].column,
                   withRule[i].message)
             EXCEPT !.severity = withRule[i].severity]]

RECURSIVE CurrentErrors(_, _)
\* The conversion of the lint results to the error map currentErrors.
CurrentErrors(acc, results) ==
    IF results = <<>> THEN acc
    ELSE CurrentErrors(
            IF Head(results).messages = <<>> THEN acc
            ELSE SetErrors(acc, PathRelative(Cwd, Head(results).filePath),
                           CurrentOfMessages(Head(results).messages)),
            Tail(results))

\* The --prune branch of run saving the pruned document without allowEmpty.
runPruneWithoutOverride(results, split, d, readdir) ==
    IF ~exists(split, d)
    THEN [disk |-> d, found |-> FALSE, saved |-> FALSE,
          pruneResult |-> [data |-> <<>>, removedCount |-> 0, keptCount |-> 0]]
    ELSE LET loaded == load(NewBaseline, split, d, readdir)
             pruneResult == prune(loaded, split, d, readdir,
                                  CurrentErrors(<<>>, results)).val
         IN IF pruneResult.removedCount = 0
            THEN [disk |-> d, found |-> TRUE, saved |-> FALSE, pruneResult |-> pruneResult]
            ELSE [disk |-> save(split, d, pruneResult.data, FALSE).disk, found |-> TRUE,
                  saved |-> TRUE, pruneResult |-> pruneResult]

\* The --prune branch of run: nothing without a persisted baseline;
\* otherwise load and prune, and save the pruned document with allowEmpty
\* when something was removed.
runPrune(results, split, d, readdir) ==
    IF ~exists(split, d)
    THEN [disk |-> d, found |-> FALSE, saved |-> FALSE,
          pruneResult |-> [data |-> <<>>, removedCount |-> 0, keptCount |-> 0]]
    ELSE LET loaded == load(NewBaseline, split, d, readdir)
             pruneResult == prune(loaded, split, d, readdir,
                                  CurrentErrors(<<>>, results)).val
         IN IF pruneResult.removedCount = 0
            THEN [disk |-> d, found |-> TRUE, saved |-> FALSE, pruneResult |-> pruneResult]
            ELSE [disk |-> save(split, d, pruneResult.data, TRUE).disk, found |-> TRUE,
                  saved |-> TRUE, pruneResult |-> pruneResult]

RECURSIVE MergeExisting(_, _, _)
\* The loop over Object.entries(baseline.data) of the --suppress-rule
\* branch: the existing findings of other rules are pushed to their file.
MergeExisting(errorsToBaseline, data, suppressRules) ==
    IF data = <<>> THEN errorsToBaseline
    ELSE LET existingOtherRules ==
                 SelectSeq(Head(data).errors, LAMBDA e : e.ruleId \notin Range(suppressRules))
         IN MergeExisting(
                IF Len(existingOtherRules) > 0
                THEN PushAll(errorsToBaseline, Head(data).file, existingOtherRules)
                ELSE errorsToBaseline,
                Tail(data), suppressRules)

\* The document run hands to the formatter as errorsToBaseline when
\* --suppress-rule is given with --update.
ErrorsToBaseline(results, suppressRules, split, d, readdir) ==
    LET filtered == filterByRules(CurrentErrors(<<>>, results), suppressRules)
    IN IF exists(split, d)
       THEN MergeExisting(filtered, load(NewBaseline, split, d, readdir).data.val,
                          suppressRules)
       ELSE filtered

\* run with --update: handleUpdateMode saves errorsToBaseline when
\* --suppress-rule was given, and the findings of the results otherwise.
runUpdate(results, suppressRules, allowEmpty, split, d, readdir) ==
    IF Len(suppressRules) > 0
    THEN LET errorsToBaseline == ErrorsToBaseline(results, suppressRules, split, d, readdir)
             saved == save(split, d, errorsToBaseline, allowEmpty)
         IN [disk |-> saved.disk, saved |-> saved.val, newBaseline |-> errorsToBaseline,
             exitCode |-> IF saved.val THEN 0 ELSE 1]
    ELSE LET r == handleUpdateMode(results, split, d, allowEmpty)
         IN [disk |-> r.disk, saved |-> r.saved, newBaseline |-> r.newBaseline,
             exitCode |-> r.exitCode]

\* Lint messages of the command line runs: rules a, a/b and _loader, and a
\* message without a rule id.
CliLint ==
    {LintOf(FA, 2), LintOf(FB, 1), LintOf(FS, 2), LintOf(FL, 2),
     LintMessage(<<>>, 2, 1, 1, msgX)}

\* Lint results: of the file a, or of b and a.
CliResults ==
    {<<>>}
    \cup {<<[filePath |-> PathJoin(Cwd, fileA), messages |-> m]>> :
            m \in (SeqsUpTo(CliLint, MaxLen - 1) \ {<<>>})
                   \cup {<<LintOf(FA, 2), LintOf(FA, 2)>>,
                         <<LintOf(FL, 2), LintOf(FA, 2)>>,
                         <<LintMessage(<<>>, 2, 1, 1, msgX), LintOf(FS, 2)>>}}
    \cup {<<[filePath |-> PathJoin(Cwd, fileB), messages |-> <<LintOf(FA, 2)>>],
            [filePath |-> PathJoin(Cwd, fileA), messages |-> <<m>>]>> :
            m \in {LintOf(FB, 1), LintOf(FS, 2)}}

\* Values of --suppress-rule.
CliRules == {<<>>, <<ruleA>>, <<ruleSlash>>, <<ruleLoader, ruleA>>}

\* The documents persisted before the commands.
CliDocs ==
    {<<[file |-> fileA, errors |-> <<FA>>]>>,
     <<[file |-> fileA, errors |-> <<FB, FS>>]>>,
     <<[file |-> fileA, errors |-> <<FL, FA>>]>>,
     <<[file |-> fileB, errors |-> <<FA>>], [file |-> fileA, errors |-> <<FA, FA>>]>>}

\* A behaviour follows one command that writes the persisted baseline, and
\* the repetition of an update.
RunPrune(results) ==
    /\ persisted.by = "none"
    /\ \E readdir \in Readdirs :
          LET r == runPrune(results, splitByRule, disk, readdir)
          IN /\ disk' = r.disk
             /\ ret' = [op |-> "runPrune", threw |-> FALSE, val |-> r,
                        arg |-> [results |-> results]]
             /\ persisted' = IF r.saved
                             THEN [by |-> "prune", data |-> r.pruneResult.data,
                                   results |-> results]
                             ELSE persisted
    /\ UNCHANGED <<splitByRule, baseline, calls, matched, loadedFrom, baselineInstance>>

RunUpdate(results, suppressRules, allowEmpty) ==
    /\ \/ persisted.by = "none"
       \/ /\ ret.op = "runUpdate"
          /\ ret.arg = [results |-> results, suppressRules |-> suppressRules,
                        allowEmpty |-> allowEmpty]
    /\ \E readdir \in Readdirs :
          LET r == runUpdate(results, suppressRules, allowEmpty, splitByRule, disk, readdir)
          IN /\ disk' = r.disk
             /\ ret' = [op |-> "runUpdate", threw |-> FALSE, val |-> r,
                        arg |-> [results |-> results, suppressRules |-> suppressRules,
                                 allowEmpty |-> allowEmpty]]
             /\ persisted' = IF r.saved
                             THEN [by |-> "update", data |-> r.newBaseline,
                                   results |-> results]
                             ELSE persisted
    /\ UNCHANGED <<splitByRule, baseline, calls, matched, loadedFrom, baselineInstance>>

InitCli ==
    /\ splitByRule \in BOOLEAN
    /\ disk \in {NoDisk} \cup {MatchDisk(data) : data \in CliDocs}
    /\ baseline = NewBaseline
    /\ ret = NoCall
    /\ calls = NoCalls
    /\ matched = NoMatched
    /\ persisted = NoPersisted
    /\ loadedFrom = NoDisk
    /\ baselineInstance = NoInstance

NextCli ==
    \/ \E results \in CliResults : RunPrune(results)
    \/ \E results \in CliResults, suppressRules \in CliRules, allowEmpty \in BOOLEAN :
          RunUpdate(results, suppressRules, allowEmpty)

\* Runs of the command line, each a process of its own, one after the other
\* on one persisted baseline.
SpecCli == InitCli /\ [][NextCli]_vars

----------------------------------------------------------------------------
(* Saving once more what was saved *)

\* Documents of the first save: out of order, with equal lines, with rules
\* that share a rule document, with the rule _loader, with a file that has
\* no finding, and over two files.
ReencodeDocs ==
    {<<>>,
     <<[file |-> fileA, errors |-> <<FB, FA>>]>>,
     <<[file |-> fileA, errors |-> <<FA2, FA>>]>>,
     <<[file |-> fileA, errors |-> <<FT, FS>>]>>,
     <<[file |-> fileA, errors |-> <<FL, FA>>]>>,
     <<[file |-> fileB, errors |-> <<>>], [file |-> fileA, errors |-> <<FA>>]>>,
     <<[file |-> fileB, errors |-> <<FA>>], [file |-> fileA, errors |-> <<FB>>]>>}

\* A second save on top of the first: of the document the first save was
\* given, as that call left it, or (own) of the document the instance
\* loaded from what the first save wrote.
SaveAgain(allowEmpty, own) ==
    /\ persisted.by = "save"
    /\ own => (baseline.loaded /\ loadedFrom = disk)
    /\ LET data == IF own THEN baseline.data.val
                   ELSE save(splitByRule, NoDisk, persisted.data, TRUE).data
           r == save(splitByRule, disk, data, allowEmpty)
       IN /\ disk' = r.disk
          /\ baseline' = IF own THEN [baseline EXCEPT !.data = Obj(r.data)] ELSE baseline
          /\ ret' = [op |-> "save", threw |-> FALSE, val |-> r.val,
                     arg |-> [data |-> data, allowEmpty |-> allowEmpty, own |-> own],
                     after |-> r.data]
          /\ persisted' = IF r.val THEN [by |-> "saveAgain", data |-> data, results |-> <<>>]
                          ELSE persisted
    /\ UNCHANGED <<splitByRule, calls, matched, loadedFrom, baselineInstance>>

NextReencode ==
    \/ Load
    \/ Reset
    \/ \E data \in ReencodeDocs, allowEmpty \in BOOLEAN : Save(data, allowEmpty, FALSE)
    \/ \E allowEmpty \in BOOLEAN, own \in BOOLEAN : SaveAgain(allowEmpty, own)

\* One save, loads and resets, and one more save of the same document or of
\* the loaded one.
SpecReencode == Init /\ [][NextReencode]_vars

----------------------------------------------------------------------------
(* Claims about matching, checked under SpecMatch *)

\* The stored file a lookup is for.
FileOfLookup(k) == CHOOSE f \in {fileA, fileB} : PathJoin(Cwd, f) = k.filePath

LoadedErrors(file) == ErrorsOf(baseline.data.val, file)

SameFinding(e, k) == e.ruleId = k.ruleId /\ e.line = k.line /\ e.message = k.message

\* k of the claim: the loaded findings of the lookup's file with its
\* (ruleId, line, message).
LoadedCopies(k) ==
    LET errs == LoadedErrors(FileOfLookup(k))
    IN Cardinality({i \in 1..Len(errs) : SameFinding(errs[i], k)})

LookupHash(k) == _generateHash(k.ruleId, k.line, k.message)

\* The loaded findings of the lookup's file with the lookup's fingerprint.
LoadedWithFingerprint(k) ==
    LET errs == LoadedErrors(FileOfLookup(k))
    IN Cardinality({i \in 1..Len(errs) : HashOf(errs[i]) = LookupHash(k)})

\* The calls made so far for the lookup's file and fingerprint.
FingerprintCalls(k) ==
    SetSum(calls, {k2 \in AllLookups :
                     k2.filePath = k.filePath /\ LookupHash(k2) = LookupHash(k)})

FirstLoaded(file, hash) ==
    LET errs == LoadedErrors(file)
    IN errs[CHOOSE i \in 1..Len(errs) :
                /\ HashOf(errs[i]) = hash
                /\ \A j \in 1..(i - 1) : HashOf(errs[j]) # hash]

C8_Returned ==
    (ret.op = "getUnmatched" /\ ~ret.threw) =>
        LET index == baseline.index.val
            out == ret.val
        IN /\ \A i \in 1..Len(index) : \A j \in 1..Len(index[i].hashes) :
                LET file == index[i].file
                    h == index[i].hashes[j]
                    first == FirstLoaded(file, h.key)
                    mine == {p \in 1..Len(out) : out[p].file = file /\ HashOf(out[p]) = h.key}
                IN h.count > 0 =>
                    /\ Cardinality(mine) = 1
                    /\ \A p \in mine :
                          /\ out[p].ruleId = first.ruleId
                          /\ out[p].line = first.line
                          /\ out[p].column = first.column
                          /\ out[p].message = first.message
                          /\ out[p].unmatchedCount = h.count
           /\ \A p \in 1..Len(out) :
                \E i \in 1..Len(index) : \E j \in 1..Len(index[i].hashes) :
                    /\ index[i].file = out[p].file
                    /\ index[i].hashes[j].key = HashOf(out[p])
                    /\ index[i].hashes[j].count > 0

\* C8: on a loaded engine getUnmatched returns exactly one entry for every
\* (file, fingerprint) with a positive remaining count and none for any other
\* pair, each with the file, the fields of the first loaded finding of that
\* file with that fingerprint and unmatchedCount = the remaining count; the
\* call leaves the index (and the rest of the instance) as it was.
C8_GetUnmatched ==
    /\ []C8_Returned
    /\ [][ret'.op = "getUnmatched" => baseline' = baseline]_vars

\* After one of two copies was consumed, the finding is reported with
\* unmatchedCount 1, and the copy stored second is not the one reported.
C8_Witness ==
    /\ ret.op = "getUnmatched"
    /\ ~ret.threw
    /\ \E p \in 1..Len(ret.val) :
          /\ ret.val[p].unmatchedCount = 1
          /\ LoadedErrors(ret.val[p].file) = <<FA2, FA>>
          /\ ret.val[p].column = FA2.column

BeforeAnyLookup ==
    ret.op = "getUnmatched" /\ ~ret.threw /\ TotalCalls(calls) = 0

\* C9 as stated: before any lookup getUnmatched returns one element for each
\* finding of the loaded document.
C9_OnePerFinding ==
    BeforeAnyLookup => Len(ret.val) = DocSize(baseline.data.val)

\* C9 amended: before any lookup getUnmatched returns one element for each
\* distinct (file, fingerprint) of the loaded document, its unmatchedCount the
\* number of loaded findings of that file with that fingerprint, so that the
\* unmatchedCount values add up to the number of loaded findings.
C9_OnePerFingerprint ==
    BeforeAnyLookup =>
        LET data == baseline.data.val
            out == ret.val
        IN /\ \A p \in 1..Len(out) :
                LET errs == LoadedErrors(out[p].file)
                IN out[p].unmatchedCount =
                      Cardinality({j \in 1..Len(errs) : HashOf(errs[j]) = HashOf(out[p])})
           /\ \A p, q \in 1..Len(out) :
                (out[p].file = out[q].file /\ HashOf(out[p]) = HashOf(out[q])) => p = q
           /\ SeqSum([p \in 1..Len(out) |-> out[p].unmatchedCount]) = DocSize(data)

\* Two findings with one fingerprint are loaded and reported as one entry.
C9_Witness ==
    /\ BeforeAnyLookup
    /\ DocSize(baseline.data.val) = 2
    /\ Len(ret.val) = 1
    /\ ret.val[1].unmatchedCount = 2

\* Nothing is persisted for the active storage mode.
NothingPersisted == IF splitByRule THEN ~disk.dir.exists ELSE ~disk.file.exists

\* C10: in every life-cycle state isInBaseline, getUnmatched, getStats and
\* getDetailedStats complete without raising an error, and with no baseline
\* data they return false, the empty list and zero totals.
C10_NeverFails ==
    /\ ~ret.threw
    /\ (NothingPersisted /\ ret.op = "isInBaseline") => ~ret.val
    /\ (NothingPersisted /\ ret.op = "getUnmatched") => ret.val = <<>>
    /\ (NothingPersisted /\ ret.op \in {"getStats", "getDetailedStats"}) =>
            ret.val.totalErrors = 0 /\ ret.val.fileCount = 0

----------------------------------------------------------------------------
(* Claims about storage, checked under Spec *)

KeySet(data) == Range(DocKeys(data))

\* The loaded document was read from the baseline the last save wrote.
LoadedAfterSave ==
    /\ baseline.loaded
    /\ persisted.by = "save"
    /\ loadedFrom = disk

SameFindingsPerFile(data, saved) ==
    \A f \in KeySet(data) \cup KeySet(saved) :
        SameMultiset(ErrorsOf(data, f), ErrorsOf(saved, f))

\* C3 as stated: in single mode, save(D), reset(), load() of a non-empty D
\* yields a document with the file keys of D and, per file, the findings of D
\* up to order.
C3_SingleRoundTrip ==
    (~splitByRule /\ LoadedAfterSave /\ Len(persisted.data) > 0) =>
        /\ KeySet(baseline.data.val) = KeySet(persisted.data)
        /\ SameFindingsPerFile(baseline.data.val, persisted.data)

\* C3 amended: in single mode, save(D), reset(), load() of a non-empty D
\* yields a document whose file keys are the keys of D that hold at least one
\* finding and, per file, the findings of D up to order.
C3_SingleRoundTripOfHeldFiles ==
    (~splitByRule /\ LoadedAfterSave /\ Len(persisted.data) > 0) =>
        /\ KeySet(baseline.data.val) =
              {f \in KeySet(persisted.data) : ErrorsOf(persisted.data, f) # <<>>}
        /\ SameFindingsPerFile(baseline.data.val, persisted.data)

\* A two-file document was saved out of order and has been loaded back in
\* sorted order.
C3_Witness ==
    /\ ~splitByRule
    /\ LoadedAfterSave
    /\ ret.op = "load"
    /\ Len(persisted.data) = 2
    /\ DocSize(persisted.data) >= 2
    /\ baseline.data.val # persisted.data
    /\ DocSize(baseline.data.val) = DocSize(persisted.data)

\* C4: in split mode, saving a non-empty D and loading it yields a document
\* in which each file's findings equal D's as a multiset, no file of D
\* missing and none added (stated for the documents in which every file
\* holds a finding, whatever the rule identifiers).
C4_SplitRoundTrip ==
    (/\ splitByRule
     /\ LoadedAfterSave
     /\ Len(persisted.data) > 0
     /\ \A f \in KeySet(persisted.data) : ErrorsOf(persisted.data, f) # <<>>) =>
        /\ KeySet(baseline.data.val) = KeySet(persisted.data)
        /\ SameFindingsPerFile(baseline.data.val, persisted.data)

C5_Result ==
    ret.op = "save" =>
        (~ret.val <=> (Len(DocKeys(ret.arg.data)) = 0 /\ ~ret.arg.allowEmpty))

C5_EmptyLoadsEmpty ==
    (LoadedAfterSave /\ persisted.data = <<>>) => baseline.data.val = <<>>

\* C5: save returns false exactly when the document has no file keys and
\* allowEmpty is not set; a save that returns false leaves the persisted
\* baseline as it was; after save({}, {allowEmpty: true}) a load on a fresh or
\* reset engine returns the empty document.
C5_EmptyGuard ==
    /\ []C5_Result
    /\ []C5_EmptyLoadsEmpty
    /\ [][(ret'.op = "save" /\ ~ret'.val) => disk' = disk]_vars

\* The empty document replaced a baseline that held findings, and the load
\* after it returned the empty document.
C5_Witness ==
    /\ LoadedAfterSave
    /\ persisted.data = <<>>
    /\ ret.op = "load"
    /\ ret.val = <<>>
    /\ IF splitByRule THEN EntryNames(disk.dir) = {LoaderFile}
       ELSE disk.file.content = JObj(<<>>)

\* C6: on a loaded engine load() returns the cached document and leaves
\* document and index, consumed counts included, as they are, also when the
\* persisted baseline changed in between; a load that follows reset() reads
\* what is persisted then.
C6_LoadIdempotent ==
    [][/\ (baseline.loaded /\ ret'.op = "load") =>
            (baseline' = baseline /\ ret'.val = baseline.data.val)
       /\ (~baseline.loaded /\ ret'.op = "load") =>
            /\ baseline'.loaded
            /\ ret'.val = baseline'.data.val
            /\ IF splitByRule
               THEN \E readdir \in Readdirs :
                        baseline'.data.val = _loadSplitBaseline(disk, readdir)
               ELSE baseline'.data.val = _loadSingleBaseline(disk)]_vars

\* A second load() after a lookup consumed an entry and a save replaced the
\* persisted baseline: the cached document came back.
C6_Witness ==
    /\ ret.op = "load"
    /\ baseline.loaded
    /\ persisted.by = "save"
    /\ loadedFrom # disk
    /\ TotalCalls(calls) > 0
    /\ baseline.index.val # _buildIndex(baseline.data.val)
    /\ ret.val = baseline.data.val

\* C7: save leaves the instance's loaded flag, loaded document and match
\* index as they were, whatever document it is given, the one load()
\* returned included.
C7_SaveKeepsInstance ==
    [][ret'.op = "save" => baseline' = baseline]_vars

----------------------------------------------------------------------------
(* Claims about the formatter, checked under SpecFormatter *)

AllMessages(results) ==
    AllErrors([i \in 1..Len(results) |-> [errors |-> results[i].messages]])

\* C2: after an update run that saved the baseline, a check run on the same
\* results with a fresh engine reports no message that has a rule id as new,
\* counts every message with a rule id as baselined, finds nothing unmatched,
\* and exits 0 when no message without a rule id has severity 2; in single
\* and in split mode.
C2_CaptureThenCheck ==
    (ret.op = "check" /\ persisted.by = "update" /\ ret.arg.results = persisted.results) =>
        LET messages == AllMessages(ret.arg.results)
        IN /\ \A m \in Range(AllMessages(ret.val.newErrors)) : ~HasRuleId(m)
           /\ ret.val.baselinedCount = Len(SelectSeq(messages, HasRuleId))
           /\ ret.val.unmatched = <<>>
           /\ (\A m \in Range(messages) : HasRuleId(m) \/ m.severity # 2) =>
                 ret.val.exitCode = 0

----------------------------------------------------------------------------
(* Claims about statistics, checked under SpecMatch *)

RulesOf(errors) == {errors[i].ruleId : i \in 1..Len(errors)}

CountOfRule(errors, rule) == Cardinality({i \in 1..Len(errors) : errors[i].ruleId = rule})

C11_Returned ==
    ret.op = "getStats" =>
        LET data == baseline.data.val
            all == AllErrors(data)
            ruleStats == ret.val.ruleStats
        IN /\ ret.val.totalErrors = DocSize(data)
           /\ ret.val.fileCount = Cardinality(KeySet(data))
           /\ {ruleStats[i].key : i \in 1..Len(ruleStats)} = RulesOf(all)
           /\ \A i, j \in 1..Len(ruleStats) : ruleStats[i].key = ruleStats[j].key => i = j
           /\ \A i \in 1..Len(ruleStats) :
                ruleStats[i].count = CountOfRule(all, ruleStats[i].key)

\* C11: after load, whatever isInBaseline and getUnmatched calls were made,
\* getStats returns totalErrors = the number of loaded findings, fileCount =
\* the number of loaded files and ruleStats[r] = the number of loaded findings
\* of rule r; the lookups leave the loaded document as load() returned it, so
\* the totals are those of the moment after the load.
C11_StatsAsLoaded ==
    /\ []C11_Returned
    /\ [][(baseline.loaded /\ ret'.op \in {"isInBaseline", "getUnmatched", "getStats"}) =>
            baseline'.data = baseline.data]_vars

\* getStats after lookups have consumed a part of the index of a document
\* with at least two findings.
C11_Witness ==
    /\ ret.op = "getStats"
    /\ ret.val.totalErrors >= 2
    /\ \E k \in AllLookups : calls[k] > 0
    /\ baseline.index.val # _buildIndex(baseline.data.val)

----------------------------------------------------------------------------
(* Claims about pruning and filtering, checked under SpecPrune *)

\* The hashes among the current findings of the file.
HashesFor(currentErrors, file) ==
    {HashOf(e) : e \in Range(ErrorsOf(currentErrors, file))}

\* The loaded entries of the file that prune has to keep.
EntriesToKeep(data, currentErrors, file) ==
    SelectSeq(ErrorsOf(data, file), LAMBDA e : HashOf(e) \in HashesFor(currentErrors, file))

\* The subsequence of the document's files for which keep(file) holds.
FilesWhere(data, keep(_)) == SelectSeq(DocKeys(data), keep)

\* C12: prune(currentFindings) returns exactly the loaded entries whose
\* fingerprint occurs among currentFindings for the same file, in loaded
\* order, without the files left with no kept entry; keptCount is the number
\* of entries of the result and removedCount the number of loaded entries
\* minus keptCount.
C12_Prune ==
    ret.op = "prune" =>
        LET data == baseline.data.val
            out == ret.val.data
            Kept(file) == EntriesToKeep(data, ret.arg, file) # <<>>
        IN /\ DocKeys(out) = FilesWhere(data, Kept)
           /\ \A i \in 1..Len(out) :
                out[i].errors = EntriesToKeep(data, ret.arg, out[i].file)
           /\ ret.val.keptCount = DocSize(out)
           /\ ret.val.removedCount = DocSize(data) - ret.val.keptCount

\* Two files were loaded; prune dropped the file b, which the current
\* findings do not name, and kept the entry of the file a.
C12_Witness ==
    /\ ret.op = "prune"
    /\ Len(baseline.data.val) = 2
    /\ DocKeys(ret.val.data) = <<fileA>>
    /\ ret.val.keptCount = 1
    /\ ret.val.removedCount = 1
    /\ Len(ErrorsOf(ret.arg, fileA)) = 2

\* What prune returns for the loaded document when no lookup has consumed
\* anything.
PruneOfUnconsumed(currentErrors) ==
    prune([baseline EXCEPT !.index = Obj(_buildIndex(baseline.data.val))],
          splitByRule, disk, <<>>, currentErrors).val

C13_SameResult ==
    ret.op = "prune" => ret.val = PruneOfUnconsumed(ret.arg)

\* C13 as stated: in every life-cycle state prune leaves the loaded flag, the
\* loaded document and the index as they were, and its result does not
\* depend on the entries that lookups have consumed.
C13_PruneIsPure ==
    /\ []C13_SameResult
    /\ [][ret'.op = "prune" => baseline' = baseline]_vars

\* C13 amended: on a loaded engine prune leaves the loaded flag, the loaded
\* document and the index as they were; on an engine that is not loaded
\* (never loaded, or reset) it performs the load and nothing else; its result
\* does not depend on the entries that lookups have consumed.
C13_PruneLoadsOnly ==
    /\ []C13_SameResult
    /\ [][ret'.op = "prune" =>
            IF baseline.loaded THEN baseline' = baseline
            ELSE \E readdir \in Readdirs :
                    baseline' = load(baseline, splitByRule, disk, readdir)]_vars

\* prune on a loaded engine after a lookup consumed an entry: the consumed
\* entry is kept by prune and the index still lacks it.
C13_Witness ==
    /\ ret.op = "prune"
    /\ \E k \in AllLookups : calls[k] > 0
    /\ baseline.index.val # _buildIndex(baseline.data.val)
    /\ ret.val.keptCount >= 1

C14_Returned ==
    ret.op = "filterByRules" =>
        LET errors == ret.arg.errors
            rules == Range(ret.arg.rules)
            out == ret.val
            Matching(file) == SelectSeq(ErrorsOf(errors, file), LAMBDA e : e.ruleId \in rules)
            Kept(file) == Matching(file) # <<>>
        IN /\ DocKeys(out) = FilesWhere(errors, Kept)
           /\ \A i \in 1..Len(out) : out[i].errors = Matching(out[i].file)
           /\ ret.after = errors
           /\ ret.again = out

\* C14: filterByRules(findings, rules) returns, per file, exactly the findings
\* whose ruleId is in rules, in their order; a file without such a finding is
\* absent; the input document and the engine are as they were; filtering the
\* result again with the same rules gives the same result.
C14_FilterByRules ==
    /\ []C14_Returned
    /\ [][ret'.op = "filterByRules" => baseline' = baseline]_vars

\* Filtering the two-file document for the rule a/b kept one finding of the
\* file a and dropped the file b, on an engine that was loaded.
C14_Witness ==
    /\ ret.op = "filterByRules"
    /\ ret.arg.errors = PriorDoc
    /\ ret.arg.rules = <<ruleSlash>>
    /\ ret.val = <<[file |-> fileA, errors |-> <<FS>>]>>
    /\ baseline.loaded

----------------------------------------------------------------------------
(* Claims about decoding, checked under SpecDecode *)

\* The content cannot be parsed or its top level is not an object.
NoDocument(content) == content.t # "obj"

\* The storage of the active mode is missing, or holds no document: in
\* single mode the file, in split mode every rule document.
BadOrAbsentStorage ==
    IF splitByRule
    THEN ~disk.dir.exists \/ \A e \in disk.dir.entries : NoDocument(e.content)
    ELSE ~disk.file.exists \/ NoDocument(disk.file.content)

\* C15: when the file (single mode) or the directory (split mode) is missing,
\* or the content does not parse or is not an object at its top level, load
\* completes with the empty document, the empty index and the engine loaded.
C15_LoadNeverFails ==
    (ret.op = "load" /\ BadOrAbsentStorage) =>
        /\ ~ret.threw
        /\ ret.val = <<>>
        /\ baseline.loaded
        /\ baseline.data = Obj(<<>>)
        /\ baseline.index = Obj(<<>>)

\* The file holds an array whose one element is an array with a valid entry,
\* and load has returned the empty document.
C15_Witness ==
    /\ ret.op = "load"
    /\ ~splitByRule
    /\ disk.file.content = JArr(<<JArr(<<StringifyFinding(FA)>>)>>)
    /\ baseline.loaded
    /\ ret.val = <<>>

\* An array element that is an object with a string ruleId and a numeric
\* line.
WellFormed(j) == j.t = "entry" /\ j.ruleId.t = "str" /\ j.line.t = "num"

\* The members of the content whose value is an array, with the elements of
\* the array that are well formed: the content as if the values that are not
\* arrays and the malformed elements were not there.
WithoutBadUnits(content) ==
    LET members == SelectSeq(content.v, LAMBDA m : m.v.t = "arr")
    IN [i \in 1..Len(members) |->
            [file |-> members[i].k,
             entries |-> SelectSeq(members[i].v.v, WellFormed)]]

\* The document read off such members: the files that hold an entry, each
\* with its entries in order.
ReadOff(units) ==
    LET held == SelectSeq(units, LAMBDA u : u.entries # <<>>)
    IN [i \in 1..Len(held) |->
            [file |-> held[i].file,
             errors |-> [j \in 1..Len(held[i].entries) |->
                            ParsedFinding(held[i].entries[j])]]]

\* C16: a file whose value is not an array is omitted and its siblings load
\* as if it were not there; an entry that is null, not an object, or has a
\* ruleId that is not a string or a line that is not a number is dropped and
\* its siblings of the same file are kept in order: the loaded document is
\* the one read off the content without its bad units, for the single file
\* and for a directory whose other rule documents hold no document.
C16_DropAndContinue ==
    ret.op = "load" =>
        /\ (~splitByRule /\ disk.file.exists /\ disk.file.content.t = "obj") =>
                ret.val = ReadOff(WithoutBadUnits(disk.file.content))
        /\ splitByRule =>
                \A e \in disk.dir.entries :
                    (/\ e.content.t = "obj"
                     /\ \A o \in disk.dir.entries \ {e} : NoDocument(o.content)) =>
                        ret.val = ReadOff(WithoutBadUnits(e.content))

\* The file b holds a string and comes first, the file a holds a malformed
\* entry and a valid one: the loaded document is the file a with the valid
\* entry.
C16_Witness ==
    /\ ret.op = "load"
    /\ ~splitByRule
    /\ disk.file.content.t = "obj"
    /\ Len(disk.file.content.v) = 2
    /\ disk.file.content.v[1].v.t = "str"
    /\ Len(disk.file.content.v[2].v.v) = 2
    /\ ret.val = <<[file |-> fileA, errors |-> <<FA>>]>>

\* C17: after load every finding of the loaded document has a rule
\* identifier that is a string and not empty (its line being a number by
\* C16); an entry whose ruleId is '' is filtered out.
C17_NonEmptyRuleId ==
    baseline.loaded => \A e \in Range(AllErrors(baseline.data.val)) : e.ruleId # <<>>

----------------------------------------------------------------------------
(* Claims about the split-mode directory, checked under Spec *)

\* The file names of the rule documents of the rule identifiers in the
\* document.
RuleDocumentNames(data) ==
    {ReplaceAll(e.ruleId, "/", "-") \o JsonSuffix : e \in Range(AllErrors(data))}

\* The rule documents present in the directory: what a load reads.
RuleDocumentsPresent == {n \in EntryNames(disk.dir) : IsRuleDocument(n)}

\* The file names the manifest lists, in its order.
ManifestFiles ==
    LET files == ContentOf(disk.dir, LoaderFile).v[2].v.v
    IN [i \in 1..Len(files) |-> files[i].v]

\* C18: after a split-mode save the rule documents in the directory are
\* exactly those of the rule identifiers of the document last saved, and
\* _loader.json lists exactly their file names in sorted order; no rule
\* document of an earlier save remains.
C18_NoStaleRuleDocuments ==
    (splitByRule /\ persisted.by = "save") =>
        /\ RuleDocumentsPresent = RuleDocumentNames(persisted.data)
        /\ Range(ManifestFiles) = RuleDocumentNames(persisted.data)
        /\ \A i \in 1..(Len(ManifestFiles) - 1) :
              CodeUnitCompare(ManifestFiles[i], ManifestFiles[i + 1]) < 0

\* The findings stored in the directory entry of that name.
StoredIn(name) == AllErrors(_validateBaselineData(ContentOf(disk.dir, name)))

\* C19: a split-mode save writes one document per distinct rule identifier,
\* named by the rule identifier with every '/' replaced by '-' plus '.json',
\* holding the findings of that rule identifier and of no other: no two rule
\* identifiers share a rule document and no rule document is overwritten by
\* another file of the same save.
C19_OneDocumentPerRule ==
    (splitByRule /\ persisted.by = "save") =>
        \A rule \in RulesOf(AllErrors(persisted.data)) :
            LET name == ReplaceAll(rule, "/", "-") \o JsonSuffix
            IN /\ name \in EntryNames(disk.dir)
               /\ \A e \in Range(StoredIn(name)) : e.ruleId = rule
               /\ CountOfRule(StoredIn(name), rule)
                     = CountOfRule(AllErrors(persisted.data), rule)

----------------------------------------------------------------------------
(* Claims about an interrupted save, checked under SpecInterrupted *)

\* The directory entries a complete save of the interrupted call's document
\* would have left.
CompleteNewSet == _saveSplitBaseline(ret.before, ret.arg.data).dir.entries

\* C20: when a split-mode save stops with a failure at one of its steps
\* (deleting an old file, writing a rule document, writing the manifest), the
\* directory afterwards holds either the complete new set of documents or the
\* complete prior set, never a mixture or a subset.
C20_AllOrNothing ==
    (ret.op = "save" /\ ret.threw) =>
        \/ disk.dir.entries = ret.before.dir.entries
        \/ disk.dir.entries = CompleteNewSet

----------------------------------------------------------------------------
(* Claims about the persisted order, checked under Spec *)

\* The members of the text are in ascending key order and the entries of
\* each member are ordered by line and, for equal lines, by ruleId.
NormalizedText(j) ==
    /\ j.t = "obj"
    /\ \A i \in 1..(Len(j.v) - 1) : CodeUnitCompare(j.v[i].k, j.v[i + 1].k) < 0
    /\ \A i \in 1..Len(j.v) :
          LET entries == j.v[i].v.v
          IN \A n \in 1..(Len(entries) - 1) :
                \/ entries[n].line.v < entries[n + 1].line.v
                \/ /\ entries[n].line.v = entries[n + 1].line.v
                   /\ localeCompare(entries[n].ruleId.v, entries[n + 1].ruleId.v) <= 0

\* C21: after a successful save the single document, and in split mode every
\* rule document, has its file keys in ascending order and each file's
\* findings ordered by line ascending and, for equal lines, by ruleId
\* ascending, whatever the order of the document passed to save.
C21_NormalizedOrder ==
    (persisted.by = "save") =>
        IF splitByRule
        THEN \A name \in RuleDocumentsPresent : NormalizedText(ContentOf(disk.dir, name))
        ELSE NormalizedText(disk.file.content)

\* A document with the lines of a file out of order was saved.
C21_Witness ==
    /\ persisted.by = "save"
    /\ \E i \in 1..Len(persisted.data) :
          LET errors == persisted.data[i].errors
          IN Len(errors) = 2 /\ errors[1].line > errors[2].line
    /\ ret.op = "save"

----------------------------------------------------------------------------
(* Claims about the match index, checked under SpecMatch *)

\* The sum of the counts the index holds for the file.
RemainingCount(file) ==
    IF IndexHas(baseline.index.val, file)
    THEN LET hashes == IndexGet(baseline.index.val, file)
         IN SeqSum([i \in 1..Len(hashes) |-> hashes[i].count])
    ELSE 0

\* C22 as stated: in every loaded state, for every file the sum of the
\* remaining counts of the file's fingerprints equals the number of findings
\* of the file in the loaded document.
C22_SumIsLoadedCount ==
    baseline.loaded =>
        \A file \in {fileA, fileB} : RemainingCount(file) = Len(LoadedErrors(file))

\* C22 amended: in every loaded state, for every file the sum of the
\* remaining counts plus the number of isInBaseline calls for the file that
\* returned true since the load equals the number of findings of the file in
\* the loaded document; with no such call the sum itself equals it.
C22_SumPlusMatched ==
    baseline.loaded =>
        \A file \in {fileA, fileB} :
            RemainingCount(file) + matched[file] = Len(LoadedErrors(file))

\* One of two copies of a fingerprint of a.js has been consumed.
C22_Witness ==
    /\ baseline.loaded
    /\ matched[fileA] = 1
    /\ RemainingCount(fileA) = 1
    /\ Len(LoadedErrors(fileA)) = 2
    /\ HashOf(LoadedErrors(fileA)[1]) = HashOf(LoadedErrors(fileA)[2])

----------------------------------------------------------------------------
(* Claims about exists and delete, checked under SpecStorage *)

\* C23: exists and delete follow the active storage mode: after a successful
\* save exists() returns true; after delete() exists() returns false; delete()
\* when nothing is persisted completes without error and changes nothing (and
\* it never touches the storage of the other mode); neither operation changes
\* the engine's document, index or loaded flag.
C23_ExistsAndDelete ==
    /\ (ret.op = "exists" /\ persisted.by = "save") => ret.val = TRUE
    /\ (ret.op = "exists" /\ persisted.by = "delete") => ret.val = FALSE
    /\ ret.op = "delete" =>
          /\ ~ret.threw
          /\ ~exists(splitByRule, ret.before) => disk = ret.before
          /\ IF splitByRule THEN disk.file = ret.before.file
                            ELSE disk.dir = ret.before.dir
    /\ ret.op \in {"exists", "delete"} => baseline = ret.engine

\* exists() answered true after a save in split mode that found nothing
\* persisted, on an engine that holds a loaded document.
C23_Witness ==
    /\ ret.op = "exists"
    /\ ret.val = TRUE
    /\ splitByRule
    /\ persisted.by = "save"
    /\ ~disk.file.exists
    /\ baseline.loaded

----------------------------------------------------------------------------
(* Claims about the identity of a finding, checked under SpecIdentity *)

\* The number of ruleId, line and message in which the entry and the lookup
\* differ.
Differences(e, k) ==
    (IF e.ruleId # k.ruleId THEN 1 ELSE 0) + (IF e.line # k.line THEN 1 ELSE 0)
        + (IF e.message # k.message THEN 1 ELSE 0)

\* The sum of the counts the index holds for the file.
CountSum(index, file) ==
    IF IndexHas(index, file)
    THEN SeqSum([i \in 1..Len(IndexGet(index, file)) |-> IndexGet(index, file)[i].count])
    ELSE 0

\* The calls counted in c for the lookup's file and fingerprint.
CallsWithFingerprint(c, k) ==
    SetSum(c, {k2 \in AllLookups :
                 k2.filePath = k.filePath /\ LookupHash(k2) = LookupHash(k)})

\* C24: the identity of a finding is (ruleId, line, message) and excludes the
\* column. An isInBaseline call for which the file still has an entry to give
\* (no more calls with its fingerprint so far than entries with its ruleId,
\* line and message, whatever their columns) returns true and consumes one
\* entry of the file; a call that differs from every entry of the file in
\* exactly one of ruleId, line and message returns false and leaves the index
\* as it was (as load built it, when the call loaded the document).
C24_Identity ==
    [][ret'.op = "isInBaseline" =>
          LET k == ret'.arg
              file == FileOfLookup(k)
              errs == ErrorsOf(baseline'.data.val, file)
              before == IF baseline.loaded THEN baseline.index.val
                        ELSE _buildIndex(baseline'.data.val)
              same == {i \in 1..Len(errs) : Differences(errs[i], k) = 0}
          IN /\ (same # {} /\ CallsWithFingerprint(calls', k) <= Cardinality(same)) =>
                    /\ ret'.val = TRUE
                    /\ CountSum(baseline'.index.val, file) = CountSum(before, file) - 1
             /\ (errs # <<>> /\ \A i \in 1..Len(errs) : Differences(errs[i], k) = 1) =>
                    /\ ret'.val = FALSE
                    /\ baseline'.index.val = before]_vars

\* A lookup has consumed an entry that was stored with another column than
\* the one the model's lookups are drawn from.
C24_Witness ==
    /\ ret.op = "isInBaseline"
    /\ ret.val = TRUE
    /\ ret.arg = LookupOf(fileA, FA)
    /\ LoadedErrors(fileA) = <<FA2>>
    /\ RemainingCount(fileA) = 0

----------------------------------------------------------------------------
(* Claims about the exit code, checked under SpecExit *)

\* The severities of the new messages of all files.
NewSeverities(newErrors) ==
    UNION {{newErrors[i].messages[j].severity : j \in 1..Len(newErrors[i].messages)} :
             i \in 1..Len(newErrors)}

\* C25: getExitCode returns 1 if at least one new message has severity 2, or
\* if reportUnmatchedAsError is set and the unmatched list is not empty, and 0
\* in every other case.
C25_ExitCode ==
    ret.op = "getExitCode" =>
        /\ ret.val \in {0, 1}
        /\ ret.val = 1 <=>
              \/ 2 \in NewSeverities(ret.arg.newErrors)
              \/ ret.arg.reportUnmatchedAsError /\ ret.arg.unmatched # <<>>

\* Only warnings are new and an unmatched entry is not to be reported as an
\* error: the exit code is 0.
C25_Witness ==
    /\ ret.op = "getExitCode"
    /\ ret.val = 0
    /\ NewSeverities(ret.arg.newErrors) = {1}
    /\ ret.arg.unmatched # <<>>
    /\ ~ret.arg.reportUnmatchedAsError

----------------------------------------------------------------------------
(* Claims about the detailed statistics, checked under SpecStats *)

\* The counts of a breakdown never increase along it.
Descending(stats) == \A i \in 1..(Len(stats) - 1) : stats[i].count >= stats[i + 1].count

\* The loaded document is the one load reads from the persisted baseline it
\* was read from.
LoadedAsRead ==
    IF splitByRule
    THEN \E readdir \in Orders(EntryNames(loadedFrom.dir)) :
            baseline.data.val = _loadSplitBaseline(loadedFrom, readdir)
    ELSE baseline.data.val = _loadSingleBaseline(loadedFrom)

\* C26: getDetailedStats agrees with getStats and is consistent: totalErrors
\* and fileCount are those of getStats, ruleCount is the number of distinct
\* rule identifiers, the rule counts and the file counts each add up to
\* totalErrors, ruleStats and fileStats are ordered by count descending,
\* severityStats.warning counts the findings of severity 1 and
\* severityStats.error all others; lookups made before do not change it.
C26_DetailedStats ==
    ret.op = "getDetailedStats" =>
        LET s == ret.val
            all == AllErrors(baseline.data.val)
        IN /\ LoadedAsRead
           /\ s.totalErrors = getStats(baseline).totalErrors
           /\ s.totalErrors = Len(all)
           /\ s.fileCount = getStats(baseline).fileCount
           /\ s.ruleCount = Cardinality(RulesOf(all))
           /\ Len(s.ruleStats) = s.ruleCount
           /\ \A i \in 1..Len(s.ruleStats) :
                 s.ruleStats[i].count = CountOfRule(all, s.ruleStats[i].rule)
           /\ SeqSum([i \in 1..Len(s.ruleStats) |-> s.ruleStats[i].count]) = s.totalErrors
           /\ Len(s.fileStats) = s.fileCount
           /\ \A i \in 1..Len(s.fileStats) :
                 s.fileStats[i].count = Len(LoadedErrors(s.fileStats[i].file))
           /\ SeqSum([i \in 1..Len(s.fileStats) |-> s.fileStats[i].count]) = s.totalErrors
           /\ Descending(s.ruleStats)
           /\ Descending(s.fileStats)
           /\ s.severityStats.warning
                 = Cardinality({i \in 1..Len(all) : all[i].severity = 1})
           /\ s.severityStats.error
                 = Cardinality({i \in 1..Len(all) : all[i].severity # 1})
           /\ s.severityStats.warning + s.severityStats.error = s.totalErrors

\* After a lookup has consumed an entry, the file and the rule read last come
\* first in the breakdowns, and the entries are a warning, an error and one
\* without a severity.
C26_Witness ==
    /\ ret.op = "getDetailedStats"
    /\ matched[fileA] = 1
    /\ baseline.data.val[1].file = fileB
    /\ ret.val.fileStats[1].file = fileA
    /\ ret.val.ruleStats[1].rule = ruleA
    /\ baseline.data.val[1].errors[1].ruleId = ruleColon
    /\ ret.val.severityStats = [error |-> 2, warning |-> 1]

----------------------------------------------------------------------------
(* Claims about loading a directory, checked under SpecSplitLoad *)

\* The valid entries the content holds for the file: none when the content
\* does not parse or is not an object.
ValidEntriesFor(content, file) ==
    IF content.t # "obj" THEN <<>>
    ELSE ErrorsOf(ReadOff(WithoutBadUnits(content)), file)

RECURSIVE EntriesAlong(_, _, _)
\* The valid entries for the file from the documents of these names, in order.
EntriesAlong(dir, names, file) ==
    IF names = <<>> THEN <<>>
    ELSE ValidEntriesFor(ContentOf(dir, Head(names)), file)
            \o EntriesAlong(dir, Tail(names), file)

\* The directory without its _loader.json.
WithoutManifest(d) ==
    [d EXCEPT !.dir.entries = {e \in @ : e.name # LoaderFile}]

\* C27: a split-mode load merges per file path: in some read order of the
\* rule documents, the loaded entries of every file are the concatenation of
\* the file's valid entries from the documents; a document that does not
\* parse or is not an object contributes nothing and takes nothing away; the
\* content of _loader.json contributes nothing, and without it (or with any
\* other content in it) the same document is loaded.
C27_SplitMerge ==
    (ret.op = "load" /\ splitByRule /\ disk.dir.exists) =>
        /\ \E names \in Orders({n \in EntryNames(disk.dir) :
                                  EndsWith(n, JsonSuffix) /\ n # LoaderFile}) :
              /\ \A file \in {fileA, fileB} :
                    LoadedErrors(file) = EntriesAlong(disk.dir, names, file)
              /\ \A manifest \in SplitManifests \ {JUndef} :
                    ret.val = _loadSplitBaseline(
                                 [disk EXCEPT !.dir = WriteEntry(WithoutManifest(disk).dir,
                                                                 LoaderFile, manifest)],
                                 names)
              /\ ret.val = _loadSplitBaseline(WithoutManifest(disk), names)
        /\ \A i \in 1..Len(ret.val) :
              ret.val[i].file \in {fileA, fileB} /\ ret.val[i].errors # <<>>

\* The document a.json does not parse, _loader.json reads as a baseline
\* document, and the entries of a-b.json are loaded for both of its files.
C27_Witness ==
    /\ ret.op = "load"
    /\ splitByRule
    /\ ContentOf(disk.dir, ruleA \o JsonSuffix) = JGarbage
    /\ LoaderFile \in EntryNames(disk.dir)
    /\ ContentOf(disk.dir, LoaderFile).t = "obj"
    /\ ContentOf(disk.dir, LoaderFile).v[1].k = fileA
    /\ ret.val = <<[file |-> fileB, errors |-> <<FS>>], [file |-> fileA, errors |-> <<FS>>]>>

----------------------------------------------------------------------------
(* Claims about reset, checked under Spec *)

\* The calls that load the document when the engine is not loaded.
ImplicitLoaders == {"isInBaseline", "getStats", "getDetailedStats", "prune"}

\* The step is the call of an implicit loader on an engine that is not loaded.
LoadsImplicitly == ~baseline.loaded /\ ret'.op \in ImplicitLoaders

\* What the step's call found in the index that load builds from the
\* persisted baseline, and what it left of it.
AsFreshlyLoaded(fresh) ==
    /\ baseline'.loaded
    /\ baseline'.data = fresh.data
    /\ IF ret'.op = "isInBaseline"
       THEN LET file == PathRelative(Cwd, ret'.arg.filePath)
                hash == _generateHash(ret'.arg.ruleId, ret'.arg.line, ret'.arg.message)
            IN /\ ret'.val = (IndexHas(fresh.index.val, file)
                                /\ MapGet(IndexGet(fresh.index.val, file), hash) > 0)
               /\ CountSum(baseline'.index.val, file)
                     = CountSum(fresh.index.val, file) - (IF ret'.val THEN 1 ELSE 0)
       ELSE baseline'.index = fresh.index

\* C28: reset clears the document and the index and sets loaded to false; the
\* next isInBaseline, getStats, getDetailedStats or prune call loads from the
\* current persisted baseline, so that the counts consumed before the reset
\* are available again, and after a save the document loaded is the document
\* that was saved (per file, the findings of that document).
C28_ResetReloads ==
    [][/\ ret'.op = "reset" => baseline' = [data |-> Null, index |-> Null, loaded |-> FALSE]
       /\ LoadsImplicitly =>
             \E readdir \in Orders(EntryNames(disk.dir)) :
                AsFreshlyLoaded(load(NewBaseline, splitByRule, disk, readdir))
       /\ (LoadsImplicitly /\ persisted.by = "save") =>
             SameFindingsPerFile(baseline'.data.val, persisted.data)]_vars

----------------------------------------------------------------------------
(* Claims about the effect of a lookup, checked under SpecMatch *)

\* Every count the index stores is at least 1.
CountsPositive ==
    baseline.loaded =>
        \A i \in 1..Len(baseline.index.val) :
            \A j \in 1..Len(baseline.index.val[i].hashes) :
                baseline.index.val[i].hashes[j].count >= 1

\* The count the index holds for the file and the fingerprint; 0 for none.
CountAt(index, file, hash) ==
    IF IndexHas(index, file) THEN MapGet(IndexGet(index, file), hash) ELSE 0

\* The (file, fingerprint) pairs the index holds.
PairsOf(index) ==
    UNION {{<<index[i].file, index[i].hashes[j].key>> : j \in 1..Len(index[i].hashes)} :
             i \in 1..Len(index)}

\* C29: in every loaded state every count in the index is >= 1; an
\* isInBaseline call that returns false leaves the index as it was, and a call
\* that returns true lowers the count of its (file, fingerprint) by one and
\* changes no other count; the loaded document stays as it is. For a call that
\* loads the document, the index before is the one load builds.
C29_NarrowEffect ==
    /\ []CountsPositive
    /\ [][ret'.op = "isInBaseline" =>
             LET before == IF baseline.loaded THEN baseline.index.val
                           ELSE _buildIndex(baseline'.data.val)
                 after == baseline'.index.val
                 file == PathRelative(Cwd, ret'.arg.filePath)
                 hash == _generateHash(ret'.arg.ruleId, ret'.arg.line, ret'.arg.message)
             IN /\ baseline.loaded => baseline'.data = baseline.data
                /\ ~ret'.val => after = before
                /\ ret'.val =>
                      /\ CountAt(after, file, hash) = CountAt(before, file, hash) - 1
                      /\ \A p \in PairsOf(before) \cup PairsOf(after) :
                            p # <<file, hash>> =>
                                CountAt(after, p[1], p[2]) = CountAt(before, p[1], p[2])
                      /\ [i \in 1..Len(after) |-> after[i].file]
                            = [i \in 1..Len(before) |-> before[i].file]]_vars

\* A lookup has taken the only copy of a fingerprint of the file a: its entry
\* is gone from the index, and the entry of the file b with the same
\* fingerprint is still there.
C29_Witness ==
    /\ ret.op = "isInBaseline"
    /\ ret.val = TRUE
    /\ ret.arg = LookupOf(fileA, FA)
    /\ matched[fileA] = 1
    /\ IndexHas(baseline.index.val, fileA)
    /\ IndexGet(baseline.index.val, fileA) = <<>>
    /\ CountAt(baseline.index.val, fileB, HashOf(FA)) = 1

----------------------------------------------------------------------------
(* Claims about the conservation of entries, checked under SpecConserve *)

\* The sum of the unmatchedCount values the report holds for the file.
UnmatchedFor(report, file) ==
    SeqSum([i \in 1..Len(report) |->
               IF report[i].file = file THEN report[i].unmatchedCount ELSE 0])

\* C30: after load and before the next reset, for every file the number of
\* isInBaseline calls for the file that returned true plus the sum of the
\* unmatchedCount values getUnmatched reports for the file equals the number
\* of findings loaded for the file; and a check run's baselinedCount plus its
\* total unmatchedCount equals the totalErrors of the baseline it loaded.
C30_Conservation ==
    /\ (ret.op = "getUnmatched" /\ baseline.loaded) =>
          /\ ~ret.threw
          /\ \A file \in {fileA, fileB} :
                matched[file] + UnmatchedFor(ret.val, file) = Len(LoadedErrors(file))
          /\ \A i \in 1..Len(ret.val) : ret.val[i].file \in {fileA, fileB}
    /\ ret.op = "check" =>
          \E readdir \in Readdirs :
              ret.val.baselinedCount
                  + SeqSum([i \in 1..Len(ret.val.unmatched) |->
                               ret.val.unmatched[i].unmatchedCount])
                  = getStats(load(NewBaseline, splitByRule, disk, readdir)).totalErrors

\* One of two copies of a fingerprint of the file a was matched; getUnmatched
\* reports the other.
C30_Witness ==
    /\ ret.op = "getUnmatched"
    /\ baseline.loaded
    /\ matched[fileA] = 1
    /\ Len(LoadedErrors(fileA)) = 2
    /\ Len(ret.val) = 1
    /\ UnmatchedFor(ret.val, fileA) = 1

----------------------------------------------------------------------------
(* Claims about check runs, checked under SpecCheck *)

\* The messages the entries (lint results, or members of newErrors) hold
\* for the file, in order.
MessagesUnder(entries, filePath) ==
    AllMessages(SelectSeq(entries, LAMBDA e : e.filePath = filePath))

RECURSIVE IsSubsequence(_, _)
\* s is t with some of its members left out.
IsSubsequence(s, t) ==
    IF s = <<>> THEN TRUE
    ELSE IF t = <<>> THEN FALSE
    ELSE IF Head(s) = Head(t) THEN IsSubsequence(Tail(s), Tail(t))
    ELSE IsSubsequence(s, Tail(t))

NoRuleId(msg) == ~HasRuleId(msg)

CheckPaths == {PathJoin(Cwd, fileA), PathJoin(Cwd, fileB)}

\* C31: in a check run baselinedCount plus the number of messages reported
\* as new equals the number of input messages; every member of newErrors
\* stands for a file of the input, carries its relative path and at least
\* one message, and the messages reported for a file are input messages of
\* that file in their input order; the messages without a rule id are all
\* reported, and they consume no baseline entry: the entries reported as
\* unmatched and the messages with a rule id that were not reported add up
\* to the findings loaded.
C31_CheckAccounting ==
    ret.op = "check" =>
        LET results == ret.arg.results
            newErrors == ret.val.newErrors
            input == AllMessages(results)
            reported == AllMessages(newErrors)
        IN /\ ret.val.baselinedCount + Len(reported) = Len(input)
           /\ \A i \in 1..Len(newErrors) :
                 /\ newErrors[i].filePath \in {results[j].filePath : j \in 1..Len(results)}
                 /\ newErrors[i].relativePath = PathRelative(Cwd, newErrors[i].filePath)
                 /\ Len(newErrors[i].messages) > 0
           /\ \A filePath \in CheckPaths :
                 /\ IsSubsequence(MessagesUnder(newErrors, filePath),
                                  MessagesUnder(results, filePath))
                 /\ SelectSeq(MessagesUnder(newErrors, filePath), NoRuleId)
                        = SelectSeq(MessagesUnder(results, filePath), NoRuleId)
           /\ \E readdir \in Readdirs :
                 SeqSum([i \in 1..Len(ret.val.unmatched) |->
                            ret.val.unmatched[i].unmatchedCount])
                     + Len(SelectSeq(input, HasRuleId))
                     - Len(SelectSeq(reported, HasRuleId))
                     = getStats(load(NewBaseline, splitByRule, disk, readdir)).totalErrors

\* A check run against a baseline that holds FA and an entry with an empty
\* ruleId: the message without a rule id was reported before FB, FA was
\* counted as baselined, and the entry with the empty ruleId is unmatched.
C31_Witness ==
    /\ ret.op = "check"
    /\ disk = MatchDisk(<<[file |-> fileA, errors |-> <<FN, FA>>]>>)
    /\ ret.arg.results =
          <<[filePath |-> PathJoin(Cwd, fileA),
             messages |-> <<LintMessage(<<>>, 2, 1, 1, msgX), LintOf(FA, 2)>>]>>
    /\ ret.val.baselinedCount = 1
    /\ AllMessages(ret.val.newErrors) = <<LintMessage(<<>>, 2, 1, 1, msgX)>>
    /\ Len(ret.val.unmatched) = 1

\* C32: the exit code of a check run is 1 exactly when a message reported
\* as new has severity 2, and 0 otherwise; the entries left unmatched and
\* the reportUnmatched option have no part in it.
C32_ExitCode ==
    ret.op = "check" =>
        ret.val.exitCode =
            (IF \E m \in Range(AllMessages(ret.val.newErrors)) : m.severity = 2
             THEN 1 ELSE 0)

\* A check run with reportUnmatched set that left an entry unmatched and
\* reported a warning only: it exits 0.
C32_Witness ==
    /\ ret.op = "check"
    /\ ret.arg.reportUnmatched
    /\ ret.val.showUnmatchedDetails
    /\ Len(ret.val.unmatched) > 0
    /\ Len(ret.val.newErrors) > 0
    /\ ret.val.exitCode = 0

----------------------------------------------------------------------------
(* Claims about what save protects, checked under Spec *)

\* C33: a save without the override flag of a document that holds no
\* finding, with or without file keys, returns false and leaves the
\* persisted baseline as it was.
C33_NoTruncation ==
    [][(ret'.op = "save" /\ ~ret'.arg.allowEmpty /\ DocSize(ret'.arg.data) = 0) =>
          (ret'.val = FALSE /\ disk' = disk)]_vars

\* C34: after save, successful or rejected, the document the caller passed
\* has the file keys and, for every file, the sequence of findings it had
\* before the call.
C34_SaveKeepsDocument ==
    ret.op = "save" => ret.after = ret.arg.data

----------------------------------------------------------------------------
(* Claims about the processor, checked under SpecProcessor *)

\* The engine a newly constructed instance starts from: the persisted
\* baseline, loaded, with the index load builds from it.
FreshlyLoaded(b) ==
    /\ b.loaded
    /\ b.index.val = _buildIndex(b.data.val)
    /\ \E readdir \in Readdirs : b = load(NewBaseline, splitByRule, disk, readdir)

\* C35: while baselineInstance is set, getBaseline returns it whatever its
\* options and leaves its engine alone, and postprocess works on it: it
\* starts from the counts earlier calls left and raises none of them; when
\* baselineInstance is null, as it is after resetBaseline, the next
\* getBaseline or postprocess constructs one more instance, loaded from the
\* persisted baseline with the counts load builds. postprocess returns
\* messages of the flattened input in their order, the messages without a
\* rule id all among them, and the whole flattened input when the loaded
\* document has no file.
C35_SharedInstance ==
    [][/\ ret'.op = "getBaseline" =>
            /\ ret'.val = baselineInstance'
            /\ ~baselineInstance'.null
            /\ ret'.engine = baseline'
            /\ ~baselineInstance.null =>
                  (baselineInstance' = baselineInstance /\ baseline' = baseline)
            /\ baselineInstance.null =>
                  (baselineInstance'.id = baselineInstance.id + 1 /\ FreshlyLoaded(baseline'))
       /\ ret'.op = "resetBaseline" => baselineInstance'.null
       /\ ret'.op = "postprocess" =>
            LET allMessages == Flat(ret'.arg.messages)
            IN /\ ret'.instance = baselineInstance'
               /\ ~baselineInstance'.null
               /\ ~baselineInstance.null =>
                     (baselineInstance' = baselineInstance /\ ret'.before = baseline)
               /\ baselineInstance.null =>
                     (baselineInstance'.id = baselineInstance.id + 1
                      /\ FreshlyLoaded(ret'.before))
               /\ baseline'.data = ret'.before.data
               /\ \A file \in {fileA, fileB} :
                     CountSum(baseline'.index.val, file)
                        <= CountSum(ret'.before.index.val, file)
               /\ IsSubsequence(ret'.val, allMessages)
               /\ SelectSeq(ret'.val, NoRuleId) = SelectSeq(allMessages, NoRuleId)
               /\ Len(DocKeys(ret'.before.data.val)) = 0 => ret'.val = allMessages]_vars

\* The first instance post-processed the file a, which took the entry of a,
\* and then the file b: the entry of b was taken and a's is still gone.
C35_Witness ==
    /\ ret.op = "postprocess"
    /\ ret.arg.filename = PathJoin(Cwd, fileB)
    /\ baselineInstance = [null |-> FALSE, id |-> 1]
    /\ matched[fileA] = 1
    /\ matched[fileB] = 1
    /\ ret.val = <<>>
    /\ CountSum(baseline.index.val, fileA) = 0
    /\ Len(ErrorsOf(baseline.data.val, fileA)) = 1

\* C36: a postprocess call for the file and messages of the call before it
\* returns what that call returned.
C36_Repeatable ==
    [][(ret.op = "postprocess" /\ ret'.op = "postprocess" /\ ret'.arg = ret.arg) =>
          ret'.val = ret.val]_vars

----------------------------------------------------------------------------
(* Claims about the command line, checked under SpecCli *)

\* The document a new instance loads from the persisted baseline.
LoadedDoc(d) ==
    load(NewBaseline, splitByRule, d,
         CHOOSE readdir \in Orders(EntryNames(d.dir)) : TRUE).data.val

\* Two sequences of findings with the same members, each as often.
SameFindings(x, y) ==
    \A e \in Range(x) \cup Range(y) : CountIn(x, e) = CountIn(y, e)

\* C37: after a run with --update and --suppress-rule values, the persisted
\* baseline holds, for every file, the current findings of the listed rules
\* and the findings of the other rules persisted before, and nothing else;
\* and after the same run once more it holds the same findings per file.
C37_RestrictedUpdate ==
    [][(ret'.op = "runUpdate" /\ Len(ret'.arg.suppressRules) > 0) =>
          LET rules == Range(ret'.arg.suppressRules)
              current == CurrentErrors(<<>>, ret'.arg.results)
              before == LoadedDoc(disk)
              after == LoadedDoc(disk')
          IN /\ \A file \in {fileA, fileB} :
                   SameFindings(
                       ErrorsOf(after, file),
                       SelectSeq(ErrorsOf(current, file), LAMBDA e : e.ruleId \in rules)
                          \o SelectSeq(ErrorsOf(before, file),
                                       LAMBDA e : e.ruleId \notin rules))
             /\ (ret.op = "runUpdate" /\ ret.arg = ret'.arg) =>
                   \A file \in {fileA, fileB} :
                       SameFindings(ErrorsOf(after, file), ErrorsOf(before, file))]_vars

\* C38: a --prune run that finds a persisted baseline leaves it as it is
\* when prune removed nothing, and otherwise saves the pruned document,
\* empty or not; either way a new instance then loads a document whose
\* entries all have a fingerprint of a current finding of their file and
\* whose size is the keptCount prune reported.
C38_CliPrune ==
    [][(ret'.op = "runPrune" /\ ret'.val.found) =>
          LET pruneResult == ret'.val.pruneResult
              current == CurrentErrors(<<>>, ret'.arg.results)
              after == LoadedDoc(disk')
          IN /\ pruneResult.removedCount = 0 => (~ret'.val.saved /\ disk' = disk)
             /\ pruneResult.removedCount > 0 =>
                   (ret'.val.saved /\ exists(splitByRule, disk'))
             /\ \A file \in {fileA, fileB} :
                   \A e \in Range(ErrorsOf(after, file)) :
                       HashOf(e) \in CurrentHashes(ErrorsOf(current, file))
             /\ \A i \in 1..Len(after) : after[i].file \in {fileA, fileB}
             /\ DocSize(after) = pruneResult.keptCount]_vars

\* A --prune run on a baseline whose findings were all fixed: the empty
\* document was saved over it.
C38_Witness ==
    /\ ret.op = "runPrune"
    /\ ret.val.found
    /\ ret.val.saved
    /\ ret.val.pruneResult.removedCount > 0
    /\ ret.val.pruneResult.keptCount = 0
    /\ exists(splitByRule, disk)
    /\ LoadedDoc(disk) = <<>>

----------------------------------------------------------------------------
(* Claims about saving once more, checked under SpecReencode *)

\* C39: a save of the document loaded from what a save wrote, and a second
\* save of the document that was saved, leave the persisted baseline as the
\* first save wrote it: the same files with the same content, the manifest
\* included.
C39_FixedPoint ==
    [][(persisted.by = "save" /\ ret'.op = "save") => disk' = disk]_vars

----------------------------------------------------------------------------
(* Claims about distinct findings, checked under SpecIdentity *)

\* C40: a lookup returns true, and so consumes an entry, only when the
\* loaded document holds for its file a finding with the lookup's rule
\* identifier, line and message: no two findings that differ in one of the
\* three, or in several, share a fingerprint.
C40_NeverConfused ==
    [][(ret'.op = "isInBaseline" /\ ret'.val = TRUE) =>
          \E e \in Range(ErrorsOf(baseline'.data.val,
                                  PathRelative(Cwd, ret'.arg.filePath))) :
              /\ e.ruleId = ret'.arg.ruleId
              /\ e.line = ret'.arg.line
              /\ e.message = ret'.arg.message]_vars

====
